---- MODULE Spec2Model ----
(***************************************************************************)
(* Model of the scope tree of ebb.py: class Scope (construction through    *)
(* the ambient Scope._top, property writes on the active node, and the     *)
(* resolution operations get / interpolate / render / get_properties_names *)
(* / _get_prefixed_properties) and class Private.                          *)
(*                                                                         *)
(* Python values are tagged records [t |-> tag, v |-> payload]:            *)
(*   none, str (a sequence of tokens: literal characters and {name}        *)
(*   placeholders), int, tuple, list (a sequence of values), dict (a       *)
(*   function from keys to values), renderer (a _Renderer object).         *)
(* Property names are sequences of characters, so that startswith and      *)
(* slicing are computed as Python computes them.                           *)
(***************************************************************************)
EXTENDS Integers, Sequences, FiniteSets, TLC

\* ------------------------------------------------------------------ bounds
MaxNodes == 3
MaxEntries == 2
MaxDepth == 3

Node == 1..MaxNodes
NoNode == 0

\* ------------------------------------------------------------------ values
NoneV == [t |-> "none"]
Lit(c) == [ph |-> FALSE, s |-> c]
Ph(n) == [ph |-> TRUE, s |-> n]
Str(toks) == [t |-> "str", v |-> toks]
IntV(i) == [t |-> "int", v |-> i]
BoolV(b) == [t |-> "bool", v |-> b]
TupleV(s) == [t |-> "tuple", v |-> s]
ListV(s) == [t |-> "list", v |-> s]
DictV(f) == [t |-> "dict", v |-> f]
EmptyDict == [k \in {} |-> NoneV]
EmptyProps == [k \in {} |-> NoneV]

IsList(x) == x.t = "list"
IsDict(x) == x.t = "dict"
IsNone(x) == x.t = "none"
IsString(x) == x.t = "str"

VARIABLES
    top,         \* Scope._top: the active node, NoNode for None
    created,     \* number of Scope objects constructed so far (ids 1..created)
    parent,      \* self._parent of every node, NoNode for None
    children,    \* self.children of every node, in construction order
    isPrivate,   \* TRUE for instances of class Private
    classOf,     \* the class of every node: "Scope" (Config too), "Private",
                 \* "Builder" or "Trigger"
    properties,  \* self.properties of every node: a dict name -> value
    active,      \* the with-blocks that are open, innermost last: the node
                 \* entered and what Scope._top was when it was entered
    ret          \* the last resolution call and what it returned

vars == <<top, created, parent, children, isPrivate, classOf, properties, active, ret>>

Nodes == 1..created

NoCall == [op |-> "none"]

\* ------------------------------------------------------- Private / related
\* Scope._get_related_scopes and its override Private._get_related_scopes:
\* the parent first, then (unless public_only) the Private children in
\* construction order; a Private node has no related scope at all.
PrivateChildrenNone(ch, priv, self) == <<>>

PrivateChildren(ch, priv, self) ==
    SelectSeq(ch[self], LAMBDA c : priv[c])

RelatedScopesAll(par, ch, priv, self, public_only) ==
    IF priv[self] THEN <<>>
    ELSE (IF par[self] # NoNode THEN <<par[self]>> ELSE <<>>)
         \o PrivateChildren(ch, priv, self)

\* the related scopes of a plain scope, for a Private node too
RelatedScopesOfPlain(par, ch, priv, self, public_only) ==
    (IF par[self] # NoNode THEN <<par[self]>> ELSE <<>>)
    \o (IF public_only THEN <<>> ELSE PrivateChildren(ch, priv, self))

RelatedScopes(par, ch, priv, self, public_only) ==
    IF priv[self] THEN <<>>
    ELSE (IF par[self] # NoNode THEN <<par[self]>> ELSE <<>>)
         \o (IF public_only THEN <<>> ELSE PrivateChildren(ch, priv, self))

\* ---------------------------------------------------------------- Scope.get
\* A resolution in progress: st is "ok" or the exception raised, val the
\* Python value, ref the identity of the object val is (Fresh: an object no
\* node stores; n: the very object stored in n.properties[name]; DefaultRef:
\* the caller's default), props the properties of every node as the call has
\* left them so far.
Fresh == 0
DefaultRef == 0 - 1
AssertionError == "AssertionError"
KeyError == "KeyError"

Failed(acc, exc) == [acc EXCEPT !.st = exc, !.val = NoneV, !.ref = Fresh]

\* list.extend (line 145): scope_value.extend(value)
ExtendListLocalFirst(scope_value, value) == value \o scope_value

ExtendList(scope_value, value) == scope_value \o value

\* dict.update (line 150): scope_value.update(value)
DictUpdateKeepOld(scope_value, value) ==
    [k \in DOMAIN scope_value \cup DOMAIN value |->
        IF k \in DOMAIN scope_value THEN scope_value[k] ELSE value[k]]

DictUpdate(scope_value, value) ==
    [k \in DOMAIN scope_value \cup DOMAIN value |->
        IF k \in DOMAIN value THEN value[k] ELSE scope_value[k]]

\* extend / update act in place on the object scope_value is: when that
\* object is one a node stores, the node's property changes with it.
WriteObj(props, ref, name, new) ==
    IF ref \in Node /\ name \in DOMAIN props[ref]
    THEN [props EXCEPT ![ref] = [props[ref] EXCEPT ![name] = new]]
    ELSE props

\* lines 136-138: a local value that is neither None, a list nor a dict is
\* returned at once.
ReturnsAtOnceNever(value) == FALSE

ReturnsAtOnce(value) == ~IsNone(value) /\ ~IsList(value) /\ ~IsDict(value)

\* lines 144 and 149: the assertions on the kind of the local value.
KindAssertOff(value, kind) == TRUE

KindAssert(value, kind) == value.t = kind

\* lines 142-153: one turn of the loop over the related scopes; r is what
\* scope.get(name, public_only=True) returned. A failed assertion raises
\* AssertionError; extend and update act on the object scope_value is.
MergeStep(acc, r, name) ==
    IF IsList(r.val) /\ ~IsNone(acc.val) /\ ~KindAssert(acc.val, "list") THEN
        Failed([acc EXCEPT !.props = r.props], AssertionError)
    ELSE IF IsDict(r.val) /\ ~IsNone(acc.val) /\ ~KindAssert(acc.val, "dict") THEN
        Failed([acc EXCEPT !.props = r.props], AssertionError)
    ELSE IF IsList(r.val) /\ IsList(acc.val) THEN
        LET new == ListV(ExtendList(r.val.v, acc.val.v))
        IN [st |-> "ok", val |-> new, ref |-> r.ref,
            props |-> WriteObj(r.props, r.ref, name, new)]
    ELSE IF IsDict(r.val) /\ IsDict(acc.val) THEN
        LET new == DictV(DictUpdate(r.val.v, acc.val.v))
        IN [st |-> "ok", val |-> new, ref |-> r.ref,
            props |-> WriteObj(r.props, r.ref, name, new)]
    ELSE IF ~IsNone(r.val) THEN
        [st |-> "ok", val |-> r.val, ref |-> r.ref, props |-> r.props]
    ELSE [acc EXCEPT !.props = r.props]

\* lines 155-159: value[:] and value.copy() make a new object.
CopyNone(acc) == acc

Copy(acc) == [acc EXCEPT !.ref = Fresh]

\* line 161: return value if value is not None else default
OrDefaultNone(acc, default) ==
    IF ~IsNone(acc.val) THEN acc ELSE [acc EXCEPT !.val = NoneV, !.ref = Fresh]

OrDefault(acc, default) ==
    IF ~IsNone(acc.val) THEN acc ELSE [acc EXCEPT !.val = default, !.ref = DefaultRef]

Finish(acc, default) ==
    IF acc.st # "ok" THEN acc
    ELSE IF IsList(acc.val) \/ IsDict(acc.val) THEN Copy(acc)
    ELSE OrDefault(acc, default)

\* lines 131-134: the value stored on the node itself, None when the name
\* is not a key of self.properties.
Local(props, self, name) ==
    IF name \in DOMAIN props[self] THEN props[self][name] ELSE NoneV

RECURSIVE GetRec(_, _, _, _, _)
RECURSIVE GetLoop(_, _, _, _)

\* lines 140-153: for scope in self._get_related_scopes(public_only)
GetLoop(acc, scopes, i, name) ==
    IF i > Len(scopes) \/ acc.st # "ok" THEN acc
    ELSE LET r == GetRec(acc.props, scopes[i], name, NoneV, TRUE)
         IN IF r.st # "ok" THEN r
            ELSE GetLoop(MergeStep(acc, r, name), scopes, i + 1, name)

\* Scope.get(self, name, default, public_only), lines 127-161
GetRec(props, self, name, default, public_only) ==
    LET value == Local(props, self, name)
        start == [st |-> "ok", val |-> value, ref |-> self, props |-> props]
    IN IF ReturnsAtOnce(value) THEN [start EXCEPT !.ref = Fresh]
       ELSE Finish(GetLoop(start,
                           RelatedScopes(parent, children, isPrivate, self, public_only),
                           1, name),
                   default)

Get(self, name, default) == GetRec(properties, self, name, default, FALSE)

\* ------------------------------------------- Scope.get_interpolation_values
\* every property of the node itself, whatever its kind
OwnProperties(props, self) == props[self]

\* lines 224-226: the string properties of the node itself
OwnStrings(props, self) ==
    [k \in {x \in DOMAIN props[self] : IsString(props[self][x])} |-> props[self][k]]

RECURSIVE InterpolationValues(_, _, _)
RECURSIVE ValuesLoop(_, _, _, _)

\* lines 220-222: result.update(scope.get_interpolation_values(True)) for
\* every related scope in turn
ValuesLoop(props, result, scopes, i) ==
    IF i > Len(scopes) THEN result
    ELSE ValuesLoop(props,
                    DictUpdate(result, InterpolationValues(props, scopes[i], TRUE)),
                    scopes, i + 1)

\* Scope.get_interpolation_values(self, public_only), lines 217-228
InterpolationValues(props, self, public_only) ==
    DictUpdate(ValuesLoop(props, EmptyDict,
                          RelatedScopes(parent, children, isPrivate, self, public_only), 1),
               OwnStrings(props, self))

\* ------------------------------------------------ Scope.get_properties_names
\* the key starts with all of the prefix but its last character
StartsWithButLast(key, prefix) ==
    /\ Len(key) >= Len(prefix) - 1
    /\ SubSeq(key, 1, Len(prefix) - 1) = SubSeq(prefix, 1, Len(prefix) - 1)

\* key.startswith(prefix + '_'), line 263
StartsWith(key, prefix) ==
    /\ Len(key) >= Len(prefix)
    /\ SubSeq(key, 1, Len(prefix)) = prefix

SeqRange(s) == {s[i] : i \in 1..Len(s)}

RECURSIVE PropertiesNames(_, _, _, _)

\* Scope.get_properties_names(self, prefix, public_only), lines 255-266
PropertiesNames(props, self, prefix, public_only) ==
    UNION {PropertiesNames(props, scope, prefix, TRUE) :
              scope \in SeqRange(RelatedScopes(parent, children, isPrivate, self, public_only))}
    \cup {key \in DOMAIN props[self] : StartsWith(key, prefix \o <<"_">>)}

\* ---------------------------------------------------------- Scope.interpolate
\* value.format(**format_args), line 180: every {name} field is replaced by
\* format_args[name]; a name that is no key raises KeyError (lines 181-182).
RECURSIVE FormatFields(_, _)
FormatFields(tokens, format_args) ==
    IF tokens = <<>> THEN <<>>
    ELSE (IF Head(tokens).ph THEN format_args[Head(tokens).s].v ELSE <<Head(tokens)>>)
         \o FormatFields(Tail(tokens), format_args)

RECURSIVE FormatKnownFields(_, _)
FormatKnownFields(tokens, format_args) ==
    IF tokens = <<>> THEN <<>>
    ELSE (IF Head(tokens).ph /\ Head(tokens).s \in DOMAIN format_args
          THEN format_args[Head(tokens).s].v ELSE <<Head(tokens)>>)
         \o FormatKnownFields(Tail(tokens), format_args)

FormatLenient(tokens, format_args) ==
    [st |-> "ok", val |-> Str(FormatKnownFields(tokens, format_args))]

Format(tokens, format_args) ==
    IF \E i \in 1..Len(tokens) : tokens[i].ph /\ tokens[i].s \notin DOMAIN format_args
    THEN [st |-> KeyError, val |-> NoneV]
    ELSE [st |-> "ok", val |-> Str(FormatFields(tokens, format_args))]

RECURSIVE Interpolate(_, _, _)

\* Scope.interpolate(self, value), lines 171-191: a string is formatted, a
\* list or dict interpolated entry by entry (the first exception ends it),
\* anything else returned as it is.
Interpolate(props, self, value) ==
    IF IsString(value)
    THEN Format(value.v, InterpolationValues(props, self, FALSE))
    ELSE IF IsList(value) THEN
        LET each == [i \in 1..Len(value.v) |-> Interpolate(props, self, value.v[i])]
        IN IF \E i \in 1..Len(value.v) : each[i].st # "ok"
           THEN [st |-> each[CHOOSE i \in 1..Len(value.v) :
                              /\ each[i].st # "ok"
                              /\ \A j \in 1..(i - 1) : each[j].st = "ok"].st,
                 val |-> NoneV]
           ELSE [st |-> "ok", val |-> ListV([i \in 1..Len(value.v) |-> each[i].val])]
    ELSE IF IsDict(value) THEN
        LET each == [k \in DOMAIN value.v |-> Interpolate(props, self, value.v[k])]
        IN IF \E k \in DOMAIN value.v : each[k].st # "ok"
           THEN [st |-> each[CHOOSE k \in DOMAIN value.v : each[k].st # "ok"].st,
                 val |-> NoneV]
           ELSE [st |-> "ok", val |-> DictV([k \in DOMAIN value.v |-> each[k].val])]
    ELSE [st |-> "ok", val |-> value]

\* --------------------------------------------------------------- Scope.render
\* a renderer that keeps the format already interpolated on the scope
RendererInterpolated(fmt, scope) ==
    LET now == Interpolate(properties, scope, [t |-> "str", v |-> fmt])
    IN [t |-> "renderer",
        v |-> [fmt |-> IF now.st = "ok" THEN now.val.v ELSE fmt, scope |-> scope]]

\* _Renderer(value, self), lines 1155-1157
Renderer(fmt, scope) == [t |-> "renderer", v |-> [fmt |-> fmt, scope |-> scope]]

RECURSIVE Render(_, _)

\* Scope.render(self, value), lines 201-215
Render(self, value) ==
    IF IsString(value) THEN Renderer(value.v, self)
    ELSE IF IsList(value) THEN ListV([i \in 1..Len(value.v) |-> Render(self, value.v[i])])
    ELSE IF IsDict(value) THEN DictV([k \in DOMAIN value.v |-> Render(self, value.v[k])])
    ELSE value

\* ------------------------------------------------ _Renderer.getRenderingFor
\* The name of the property Config.add_renderer_handlers appends to (line 450)
ConfigRendererHandlers == <<"config", "_", "renderer", "_", "handlers">>
Revisions == <<"revisions">>

\* A handler, a callable handler(scope, props, format_vars) the configuration
\* registers: handler number id adds its mark to the end of format_vars["h"].
Handler(id) == [t |-> "handler", id |-> id]
HandlerKey == <<"h">>
HandlerMark(id) == Lit(ToString(id))

\* handler(self._scope, props, format_vars), line 167
ApplyHandler(handler, scope, props, format_vars) ==
    LET old == IF HandlerKey \in DOMAIN format_vars THEN format_vars[HandlerKey].v
               ELSE <<>>
    IN [k \in DOMAIN format_vars \cup {HandlerKey} |->
           IF k = HandlerKey THEN Str(Append(old, HandlerMark(handler.id)))
           ELSE format_vars[k]]

\* self._scope.get('config_renderer_handlers', []), line 166
RendererHandlersOwn(props, scope) ==
    [st |-> "ok",
     val |-> IF IsNone(Local(props, scope, ConfigRendererHandlers)) THEN ListV(<<>>)
             ELSE Local(props, scope, ConfigRendererHandlers)]

RendererHandlers(props, scope) ==
    LET result == GetRec(props, scope, ConfigRendererHandlers, ListV(<<>>), FALSE)
    IN [st |-> result.st, val |-> result.val]

RECURSIVE HandlersLoop(_, _, _, _, _)

\* lines 166-167: for handler in ...: handler(self._scope, props, format_vars)
HandlersLoop(handlers, i, scope, props, format_vars) ==
    IF i > Len(handlers) THEN format_vars
    ELSE HandlersLoop(handlers, i + 1, scope, props,
                      ApplyHandler(handlers[i], scope, props, format_vars))

\* The build properties: asDict() gives (value, source) for each name,
\* getBuild().allChanges() the changes of the build with their revision.
BuildProperties(dict, changes) == [dict |-> dict, changes |-> changes]

\* value[0], line 180
RuntimeSource(value) == value[2]

RuntimeValue(value) == value[1]

\* lines 179-180: for key, value in props.asDict().iteritems():
\* format_vars[key] = value[0]
RuntimeYields(format_vars, props) ==
    [k \in DOMAIN format_vars \cup DOMAIN props.dict |->
        IF k \in DOMAIN format_vars THEN format_vars[k]
        ELSE RuntimeValue(props.dict[k])]

RuntimeOverrides(format_vars, props) ==
    [k \in DOMAIN format_vars \cup DOMAIN props.dict |->
        IF k \in DOMAIN props.dict THEN RuntimeValue(props.dict[k])
        ELSE format_vars[k]]

RECURSIVE Join(_, _)

\* ' '.join([change.revision for change in ...]), line 182
Join(separator, strings) ==
    IF strings = <<>> THEN <<>>
    ELSE IF Len(strings) = 1 THEN Head(strings)
    ELSE Head(strings) \o <<separator>> \o Join(separator, Tail(strings))

\* line 182: format_vars['revisions'] = ...
SetRevisions(format_vars, props) ==
    [k \in DOMAIN format_vars \cup {Revisions} |->
        IF k = Revisions THEN Str(Join(Lit(" "), props.changes)) ELSE format_vars[k]]

\* _Renderer.getRenderingFor(self, props), lines 1163-1183. The revision of
\* lines 172-177 is computed and not used.
GetRenderingFor(tree, renderer, props) ==
    LET scope == renderer.v.scope
        handlers == RendererHandlers(tree, scope)
    IN IF handlers.st # "ok"
       THEN [st |-> handlers.st, val |-> NoneV, format_vars |-> EmptyDict, calls |-> <<>>]
       ELSE LET format_vars ==
                    SetRevisions(
                        RuntimeOverrides(
                            HandlersLoop(handlers.val.v, 1, scope, props,
                                         InterpolationValues(tree, scope, FALSE)),
                            props),
                        props)
                formatted == Format(renderer.v.fmt, format_vars)
            IN [st |-> formatted.st, val |-> formatted.val,
                format_vars |-> format_vars, calls |-> handlers.val.v]

\* ------------------------------------------- Scope._get_prefixed_properties
\* Scope.get_interpolated(self, name), lines 163-169
GetInterpolated(props, self, name) ==
    LET result == GetRec(props, self, name, NoneV, FALSE)
    IN IF result.st # "ok" THEN [st |-> result.st, val |-> NoneV]
       ELSE Interpolate(props, self, result.val)

\* Scope.get_rendered(self, name), lines 193-199
GetRendered(props, self, name) ==
    LET result == GetRec(props, self, name, NoneV, FALSE)
    IN IF result.st # "ok" THEN [st |-> result.st, val |-> NoneV]
       ELSE [st |-> "ok", val |-> Render(self, result.val)]

\* self.get(key), line 296
GetPlain(props, self, name) ==
    LET result == GetRec(props, self, name, NoneV, FALSE)
    IN [st |-> result.st, val |-> result.val]

\* lines 277-279: a single prefix is made a tuple of one
StrPrefix(prefix) == [t |-> "str", v |-> prefix]
TuplePrefixes(prefixes) == [t |-> "tuple", v |-> prefixes]
AsTuple(prefixes) == IF prefixes.t = "tuple" THEN prefixes.v ELSE <<prefixes.v>>

\* key[len(prefix) + 1:], lines 291, 295 and 299
KeyWithPrefixKept(key, prefix) == key

KeyWithoutPrefix(key, prefix) == SubSeq(key, Len(prefix) + 2, Len(key))

\* lines 281-287: props[prefix] = (interpolated_it, raw_it, rendered_it)
PrefixedNames(props, self, prefix, rendered, raw) ==
    LET names == PropertiesNames(props, self, prefix, FALSE)
        raw_it == names \cap raw
        rendered_it == names \cap rendered
    IN [interpolated_it |-> (names \ raw_it) \ rendered_it,
        raw_it |-> raw_it,
        rendered_it |-> rendered_it]

\* The three loops of lines 289-300 for the prefixes in the order
\* props.iteritems() yields them: each loop fetches its keys one way.
Loops(props, self, order, rendered, raw) ==
    [g \in 1..(3 * Len(order)) |->
        LET prefix == order[((g - 1) \div 3) + 1]
            it == PrefixedNames(props, self, prefix, rendered, raw)
        IN CASE (g - 1) % 3 = 0 -> [prefix |-> prefix, keys |-> it.interpolated_it,
                                    how |-> "get_interpolated"]
             [] (g - 1) % 3 = 1 -> [prefix |-> prefix, keys |-> it.raw_it, how |-> "get"]
             [] OTHER -> [prefix |-> prefix, keys |-> it.rendered_it,
                          how |-> "get_rendered"]]

Fetch(props, self, key, how) ==
    CASE how = "get_interpolated" -> GetInterpolated(props, self, key)
      [] how = "get" -> GetPlain(props, self, key)
      [] OTHER -> GetRendered(props, self, key)

RECURSIVE RunLoops(_, _, _, _, _)

\* One loop stores result[key_without_prefix] for each of its keys, replacing
\* what an earlier loop stored there. The first call that raises ends the
\* extraction: within one loop any of the failing keys may be the first, the
\* order of a set being unspecified.
RunLoops(props, self, loops, g, result) ==
    IF g > Len(loops) THEN {[st |-> "ok", val |-> DictV(result)]}
    ELSE LET loop == loops[g]
             got == [key \in loop.keys |-> Fetch(props, self, key, loop.how)]
             raising == {key \in loop.keys : got[key].st # "ok"}
             stored == {KeyWithoutPrefix(key, loop.prefix) : key \in loop.keys}
             written == [k \in stored |->
                            got[CHOOSE key \in loop.keys :
                                    KeyWithoutPrefix(key, loop.prefix) = k].val]
         IN IF raising # {}
            THEN {[st |-> got[key].st, val |-> NoneV] : key \in raising}
            ELSE RunLoops(props, self, loops, g + 1, DictUpdate(result, written))

\* The orders a dict holding the prefixes as keys may be iterated in.
IterationOrders(prefixes) ==
    {order \in [1..Cardinality(SeqRange(prefixes)) -> SeqRange(prefixes)] :
        \A i, j \in DOMAIN order : order[i] = order[j] => i = j}

\* Scope._get_prefixed_properties(self, prefixes, rendered, raw), lines
\* 272-303: what the call may return or raise.
GetPrefixedProperties(props, self, prefixes, rendered, raw) ==
    UNION {RunLoops(props, self, Loops(props, self, order, rendered, raw), 1, EmptyDict) :
              order \in IterationOrders(AsTuple(prefixes))}

\* ------------------------------------------------------- Scope._build_class
\* lines 316-317: if additional is not None: kwargs.update(additional)
MergeAdditionalNever(kwargs, additional) == kwargs

MergeAdditional(kwargs, additional) ==
    IF IsNone(additional) THEN kwargs ELSE DictUpdate(kwargs, additional.v)

\* buildbot_class(*args, **kwargs), line 325: the object constructed
Constructed(args, kwargs) == [t |-> "object", args |-> args, kwargs |-> kwargs]

RECURSIVE PositionalLoop(_, _, _, _)

\* lines 320-323: for name in positional: assert name in kwargs;
\* args.append(kwargs[name]); del kwargs[name]
PositionalLoop(positional, i, args, kwargs) ==
    IF i > Len(positional) THEN [st |-> "ok", val |-> Constructed(args, kwargs)]
    ELSE LET name == positional[i]
         IN IF name \notin DOMAIN kwargs THEN [st |-> AssertionError, val |-> NoneV]
            ELSE PositionalLoop(positional, i + 1, Append(args, kwargs[name]),
                                [k \in DOMAIN kwargs \ {name} |-> kwargs[k]])

\* Scope._build_class(self, buildbot_class, prefixes, positional, raw,
\* rendered, additional), lines 305-325: what the call may return or raise.
BuildClass(props, self, prefixes, positional, raw, rendered, additional) ==
    {IF extracted.st # "ok" THEN [st |-> extracted.st, val |-> NoneV]
     ELSE LET kwargs == MergeAdditional(extracted.val.v, additional)
          IN IF IsNone(positional) THEN [st |-> "ok", val |-> Constructed(<<>>, kwargs)]
             ELSE PositionalLoop(positional.v, 1, <<>>, kwargs) :
        extracted \in GetPrefixedProperties(props, self, prefixes, rendered, raw)}

\* -------------------------------------------------------------- Scope.build
\* self._build(config), line 244: the hook of the node is called.
Hook(self, config) == [node |-> self, config |-> config]

RECURSIVE Build(_, _, _)
RECURSIVE BuildChildren(_, _, _, _)

\* lines 242-243: for child in self.children: child.build(config)
BuildChildren(ch, cs, i, config) ==
    IF i > Len(cs) THEN <<>>
    ELSE Build(ch, cs[i], config) \o BuildChildren(ch, cs, i + 1, config)

BuildSelfFirst(ch, self, config) ==
    <<Hook(self, config)>> \o BuildChildren(ch, ch[self], 1, config)

\* Scope.build(self, config), lines 240-244: the hooks called, in the order
\* of the calls.
Build(ch, self, config) ==
    BuildChildren(ch, ch[self], 1, config) \o <<Hook(self, config)>>

\* ------------------------------------------ Builder._build, Step._build
BuilderName == <<"builder", "_", "name">>
StepName == <<"step", "_", "name">>

RECURSIVE GetParentOfType(_, _, _, _)

\* Scope.get_parent_of_type(self, parent_type), lines 230-238
GetParentOfType(par, cls, self, parent_type) ==
    IF par[self] = NoNode THEN NoNode
    ELSE IF cls[par[self]] = parent_type THEN par[self]
    ELSE GetParentOfType(par, cls, par[self], parent_type)

\* A walk in progress: st is "ok" or the exception that ended it, names the
\* _builder_names of every Trigger, steps the Trigger steps built so far with
\* the builderNames each was given (line 1078).
StartOfWalk == [st |-> "ok", names |-> [n \in Node |-> <<>>], steps |-> <<>>]

\* self._build(config) for a Builder (lines 717-739, of which the
\* registration with the closest Trigger, lines 737-739, is kept), for a
\* Trigger (Step._build, lines 936-944, and Trigger._get_step, lines
\* 1076-1078) and for the other scopes, whose hooks touch no Trigger.
RunHook(props, par, cls, walk, self) ==
    IF cls[self] = "Builder" THEN
        LET parent_trigger == GetParentOfType(par, cls, self, "Trigger")
            name == GetInterpolated(props, self, BuilderName)
        IN IF parent_trigger = NoNode THEN walk
           ELSE IF name.st # "ok" THEN [walk EXCEPT !.st = name.st]
           ELSE [walk EXCEPT !.names[parent_trigger] = Append(@, name.val)]
    ELSE IF cls[self] = "Trigger" THEN
        IF GetParentOfType(par, cls, self, "Builder") = NoNode
        THEN [walk EXCEPT !.st = "Exception"]
        ELSE [walk EXCEPT !.steps =
                 Append(@, [node |-> self, builderNames |-> walk.names[self]])]
    ELSE walk

RECURSIVE RunHooks(_, _, _, _, _, _)

\* The hooks of a walk run in the order Scope.build calls them; an exception
\* ends the walk.
RunHooks(props, par, cls, calls, i, walk) ==
    IF i > Len(calls) \/ walk.st # "ok" THEN walk
    ELSE RunHooks(props, par, cls, calls, i + 1,
                  RunHook(props, par, cls, walk, calls[i].node))

\* ------------------------------------------------------------ construction
\* a node that takes its parent and is not added to the parent's children
ConstructDetached(self, private) ==
    /\ created' = self
    /\ parent' = [parent EXCEPT ![self] = top]
    /\ children' = children
    /\ isPrivate' = [isPrivate EXCEPT ![self] = private]
    /\ classOf' = [classOf EXCEPT ![self] = IF private THEN "Private" ELSE "Scope"]
    /\ properties' = [properties EXCEPT ![self] = EmptyProps]

\* Scope.__init__ (lines 65-70): the new node hangs under Scope._top.
Construct(self, private) ==
    /\ created' = self
    /\ parent' = [parent EXCEPT ![self] = top]
    /\ children' = IF top # NoNode
                   THEN [children EXCEPT ![top] = Append(@, self)]
                   ELSE children
    /\ isPrivate' = [isPrivate EXCEPT ![self] = private]
    /\ classOf' = [classOf EXCEPT ![self] = IF private THEN "Private" ELSE "Scope"]
    /\ properties' = [properties EXCEPT ![self] = EmptyProps]

\* Scope.__enter__ (lines 72-75)
Enter(self) ==
    /\ top # self
    /\ top' = self
    /\ active' = Append(active, [node |-> self, was |-> top])

\* Builder.__init__ (lines 591-598) and Trigger.__init__ (lines 1039-1043,
\* with Step.__init__, lines 897-899): Scope.__init__, then the name is
\* stored on the node as builder_name or step_name. A Trigger is made with
\* no builder name given.
ConstructInstance(self, class, name) ==
    /\ created' = self
    /\ parent' = [parent EXCEPT ![self] = top]
    /\ children' = IF top # NoNode
                   THEN [children EXCEPT ![top] = Append(@, self)]
                   ELSE children
    /\ isPrivate' = [isPrivate EXCEPT ![self] = FALSE]
    /\ classOf' = [classOf EXCEPT ![self] = class]
    /\ properties' = [properties EXCEPT ![self] =
            [k \in {IF class = "Builder" THEN BuilderName ELSE StepName} |-> name]]

\* "with Config():" (Config.__init__, lines 340-341, then __enter__): the
\* root of the tree. The model follows one configuration tree.
Root ==
    /\ created = 0
    /\ top = NoNode
    /\ Construct(1, FALSE)
    /\ Enter(1)
    /\ ret' = NoCall

\* "with Scope():" or "with Private():" inside an open block, as Scope.push
\* does (lines 119-125): __init__ followed by __enter__.
With(private) ==
    /\ created < MaxNodes
    /\ top # NoNode
    /\ Construct(created + 1, private)
    /\ Enter(created + 1)
    /\ ret' = NoCall

\* "with Builder(name):" or "with Trigger(name):", inside an open block or
\* outside all of them when no node exists yet.
WithInstance(class, name) ==
    /\ created < MaxNodes
    /\ top # NoNode \/ created = 0
    /\ ConstructInstance(created + 1, class, name)
    /\ Enter(created + 1)
    /\ ret' = NoCall

\* Scope.__exit__ (lines 77-78) of the innermost open with-block
ExitWith ==
    /\ active # <<>>
    /\ top' = parent[active[Len(active)].node]
    /\ active' = SubSeq(active, 1, Len(active) - 1)
    /\ ret' = NoCall
    /\ UNCHANGED <<created, parent, children, isPrivate, classOf, properties>>

\* "node = Scope()" or "node = Private()" outside a with statement: __init__
\* alone (lines 65-70), the node is not entered.
New(private) ==
    /\ created < MaxNodes
    /\ Construct(created + 1, private)
    /\ ret' = NoCall
    /\ UNCHANGED <<top, active>>

\* "with node:" on a node constructed before: __enter__ (lines 72-75). When
\* its assertion fails the block is not run and __exit__ not called.
EnterNode(self) ==
    /\ self \in Nodes
    /\ Len(active) < MaxDepth
    /\ IF top # self
       THEN /\ Enter(self)
            /\ ret' = [op |-> "enter", node |-> self, st |-> "ok"]
       ELSE /\ ret' = [op |-> "enter", node |-> self, st |-> AssertionError]
            /\ UNCHANGED <<top, active>>
    /\ UNCHANGED <<created, parent, children, isPrivate, classOf, properties>>

\* an __exit__ that restores the top at the normal end of the block alone
ExitOnNormalEnd(ex_type) ==
    /\ active # <<>>
    /\ top' = IF ex_type = "None" THEN parent[active[Len(active)].node] ELSE top
    /\ active' = SubSeq(active, 1, Len(active) - 1)
    /\ ret' = [op |-> "exit", node |-> active[Len(active)].node, ex_type |-> ex_type]
    /\ UNCHANGED <<created, parent, children, isPrivate, classOf, properties>>

\* The end of the innermost open with-block, reached by the end of its body
\* (ex_type None) or by an exception raised in it: __exit__(self, ex_type,
\* value, traceback), lines 77-78, looks at none of its arguments and returns
\* None, so the exception goes on to the enclosing block.
Exit(ex_type) ==
    /\ active # <<>>
    /\ top' = parent[active[Len(active)].node]
    /\ active' = SubSeq(active, 1, Len(active) - 1)
    /\ ret' = [op |-> "exit", node |-> active[Len(active)].node, ex_type |-> ex_type]
    /\ UNCHANGED <<created, parent, children, isPrivate, classOf, properties>>

\* ------------------------------------------------------------------ writes
\* The number of entries the nodes store: one per scalar property, one per
\* element of a list, one per key of a dict.
EntrySize(value) ==
    IF IsList(value) THEN Len(value.v)
    ELSE IF IsDict(value) THEN Cardinality(DOMAIN value.v)
    ELSE 1

RECURSIVE SumOver(_, _)
SumOver(f, S) ==
    IF S = {} THEN 0
    ELSE LET x == CHOOSE y \in S : TRUE IN f[x] + SumOver(f, S \ {x})

NodeSize(props, n) ==
    SumOver([k \in DOMAIN props[n] |-> EntrySize(props[n][k])], DOMAIN props[n])

Size(props) == SumOver([n \in Node |-> NodeSize(props, n)], Node)

\* Scope.set (lines 80-84)
Set(name, value) ==
    /\ top # NoNode
    /\ properties' = [properties EXCEPT ![top] =
            [k \in DOMAIN @ \cup {name} |-> IF k = name THEN value ELSE @[k]]]
    /\ Size(properties') <= MaxEntries
    /\ ret' = NoCall
    /\ UNCHANGED <<top, created, parent, children, isPrivate, classOf, active>>

\* isinstance(value, expected_type), line 93, for the types set_checked is
\* called with: basestring, str, int (a bool is an int), bool and tuple.
IsInstanceAlways(value, expected_type) == TRUE

IsInstance(value, expected_type) ==
    CASE expected_type = "basestring" -> IsString(value)
      [] expected_type = "int" -> value.t \in {"int", "bool"}
      [] expected_type = "bool" -> value.t = "bool"
      [] expected_type = "str" -> IsString(value)
      [] expected_type = "tuple" -> value.t = "tuple"
      [] OTHER -> FALSE

\* Scope.set_checked(name, value, expected_type), lines 86-94, Scope.set
\* (lines 80-84) included: with no active node its assertion fails.
SetChecked(name, value, expected_type) ==
    /\ LET call == [op |-> "set_checked", name |-> name, value |-> value,
                    expected_type |-> expected_type]
       IN IF IsNone(value)
          THEN /\ ret' = call @@ [st |-> "ok"]
               /\ UNCHANGED properties
          ELSE IF expected_type # "None" /\ ~IsInstance(value, expected_type)
          THEN /\ ret' = call @@ [st |-> AssertionError]
               /\ UNCHANGED properties
          ELSE IF top = NoNode
          THEN /\ ret' = call @@ [st |-> AssertionError]
               /\ UNCHANGED properties
          ELSE /\ ret' = call @@ [st |-> "ok"]
               /\ properties' = [properties EXCEPT ![top] =
                     [k \in DOMAIN @ \cup {name} |-> IF k = name THEN value ELSE @[k]]]
               /\ Size(properties') <= MaxEntries
    /\ UNCHANGED <<top, created, parent, children, isPrivate, classOf, active>>

\* ------------------------------------------------------------- Sync.config
SyncMode == <<"sync", "_", "mode">>
SyncAlwaysUseLatest == <<"sync", "_", "alwaysUseLatest">>
SyncRetry == <<"sync", "_", "retry">>
SyncLogEnviron == <<"sync", "_", "logEnviron">>
TypeError == "TypeError"

\* Scope.set_checked(name, value, expected_type), lines 86-94, as a step of
\* a method that goes on after it: done is the method so far, st "ok" or the
\* exception raised, props the properties as the method has left them.
ThenSetChecked(done, name, value, expected_type) ==
    IF done.st # "ok" \/ IsNone(value) THEN done
    ELSE IF expected_type # "None" /\ ~IsInstance(value, expected_type)
    THEN [done EXCEPT !.st = AssertionError]
    ELSE IF top = NoNode THEN [done EXCEPT !.st = AssertionError]
    ELSE [done EXCEPT !.props[top] =
             [k \in DOMAIN @ \cup {name} |-> IF k = name THEN value ELSE @[k]]]

\* assert mode in ['incremental', 'full', None], line 959
ThenAssertMode(done, mode) ==
    IF done.st # "ok" THEN done
    ELSE IF IsNone(mode) \/ mode \in {Str(<<Lit("incremental")>>), Str(<<Lit("full")>>)}
    THEN done
    ELSE [done EXCEPT !.st = AssertionError]

\* assert len(retry) == 2, line 962: len(None) raises TypeError
ThenAssertLen(done, retry) ==
    IF done.st # "ok" THEN done
    ELSE IF retry.t \notin {"tuple", "list", "dict", "str"} THEN [done EXCEPT !.st = TypeError]
    ELSE IF Len(retry.v) = 2 THEN done
    ELSE [done EXCEPT !.st = AssertionError]

\* Sync.config(mode, always_use_latest, retry, log_environ), lines 952-963:
\* what is stored before an exception stays stored.
SyncConfig(mode, always_use_latest, retry, log_environ) ==
    /\ LET start == [st |-> "ok", props |-> properties]
           s1 == ThenSetChecked(start, SyncMode, mode, "str")
           s2 == ThenAssertMode(s1, mode)
           s3 == ThenSetChecked(s2, SyncAlwaysUseLatest, always_use_latest, "bool")
           s4 == ThenSetChecked(s3, SyncRetry, retry, "tuple")
           s5 == ThenAssertLen(s4, retry)
           s6 == ThenSetChecked(s5, SyncLogEnviron, log_environ, "bool")
       IN /\ properties' = s6.props
          /\ ret' = [op |-> "Sync.config", mode |-> mode,
                     always_use_latest |-> always_use_latest, retry |-> retry,
                     log_environ |-> log_environ, st |-> s6.st]
    /\ UNCHANGED <<top, created, parent, children, isPrivate, classOf, active>>

\* Scope.append (lines 96-105)
ScopeAppend(name, values) ==
    /\ top # NoNode
    /\ LET old == IF name \in DOMAIN properties[top] THEN properties[top][name]
                  ELSE ListV(<<>>)
       IN /\ IsList(old)
          /\ properties' = [properties EXCEPT ![top] =
                [k \in DOMAIN @ \cup {name} |->
                    IF k = name THEN ListV(old.v \o values) ELSE @[k]]]
    /\ Size(properties') <= MaxEntries
    /\ ret' = NoCall
    /\ UNCHANGED <<top, created, parent, children, isPrivate, classOf, active>>

\* Scope.update (lines 107-117)
ScopeUpdate(name, key, value) ==
    /\ top # NoNode
    /\ LET old == IF name \in DOMAIN properties[top] THEN properties[top][name]
                  ELSE DictV(EmptyDict)
       IN /\ IsDict(old)
          /\ properties' = [properties EXCEPT ![top] =
                [k \in DOMAIN @ \cup {name} |->
                    IF k = name
                    THEN DictV([x \in DOMAIN old.v \cup {key} |->
                                  IF x = key THEN value ELSE old.v[x]])
                    ELSE @[k]]]
    /\ Size(properties') <= MaxEntries
    /\ ret' = NoCall
    /\ UNCHANGED <<top, created, parent, children, isPrivate, classOf, active>>

\* ----------------------------------------------------------------- queries
\* Resolution follows construction: the queries are made once every
\* with-block is closed (Config.build_config is called on the finished tree).
Built == created > 0 /\ top = NoNode /\ active = <<>>

\* A call of self.get(name, default) by a user of the tree.
CallGet(self, name, default) ==
    /\ Built
    /\ self \in Nodes
    /\ LET r == Get(self, name, default)
       IN /\ ret' = [op |-> "get", node |-> self, name |-> name, default |-> default,
                     st |-> r.st, val |-> r.val, ref |-> r.ref]
          /\ properties' = r.props
    /\ UNCHANGED <<top, created, parent, children, isPrivate, classOf, active>>

\* The caller adds an entry to the list or dict the last get call returned
\* and drops it: the object changes, and with it every property that is that
\* same object.
AddedEntry(value) ==
    IF IsList(value) THEN ListV(Append(value.v, NoneV))
    ELSE DictV([k \in DOMAIN value.v \cup {"added"} |->
                  IF k = "added" THEN NoneV ELSE value.v[k]])

MutateReturned ==
    /\ ret.op = "get"
    /\ ret.st = "ok"
    /\ IsList(ret.val) \/ IsDict(ret.val)
    /\ LET new == AddedEntry(ret.val)
       IN /\ ret' = NoCall
          /\ properties' = WriteObj(properties, ret.ref, ret.name, new)
    /\ UNCHANGED <<top, created, parent, children, isPrivate, classOf, active>>

\* A call of self.interpolate(value) by a user of the tree.
CallInterpolate(self, value) ==
    /\ Built
    /\ self \in Nodes
    /\ LET r == Interpolate(properties, self, value)
       IN ret' = [op |-> "interpolate", node |-> self, value |-> value,
                  st |-> r.st, val |-> r.val]
    /\ UNCHANGED <<top, created, parent, children, isPrivate, classOf, properties, active>>

\* A call of self.get_interpolation_values() (lines 217-228): it stores
\* nothing, the outcome of one call per finished tree is recorded.
CallInterpolationValues(self) ==
    /\ Built
    /\ ret = NoCall
    /\ self \in Nodes
    /\ ret' = [op |-> "get_interpolation_values", node |-> self,
               val |-> InterpolationValues(properties, self, FALSE)]
    /\ UNCHANGED <<top, created, parent, children, isPrivate, classOf, properties, active>>

\* A call of self._get_prefixed_properties(prefixes, rendered, raw), as
\* _build_class makes it (lines 313-315). get and interpolate store nothing,
\* so a call finds the tree as the call before it did: the outcome of one
\* call per finished tree is recorded.
CallExtract(self, prefixes, rendered, raw) ==
    /\ Built
    /\ ret = NoCall
    /\ self \in Nodes
    /\ \E r \in GetPrefixedProperties(properties, self, prefixes, rendered, raw) :
          ret' = [op |-> "extract", node |-> self, prefixes |-> prefixes,
                  rendered |-> rendered, raw |-> raw, st |-> r.st, val |-> r.val]
    /\ UNCHANGED <<top, created, parent, children, isPrivate, classOf, properties, active>>

\* A call of self._build_class(buildbot_class, prefixes, positional, raw,
\* rendered, additional), as the _build hooks make it; like the extraction it
\* stores nothing on the tree.
CallBuildClass(self, prefixes, positional, raw, rendered, additional) ==
    /\ Built
    /\ ret = NoCall
    /\ self \in Nodes
    /\ \E r \in BuildClass(properties, self, prefixes, positional, raw, rendered, additional) :
          ret' = [op |-> "build_class", node |-> self, prefixes |-> prefixes,
                  positional |-> positional, rendered |-> rendered, raw |-> raw,
                  additional |-> additional, st |-> r.st, val |-> r.val]
    /\ UNCHANGED <<top, created, parent, children, isPrivate, classOf, properties, active>>

\* Config.add_renderer_handlers(*handlers), lines 446-450
AddRendererHandlers(handlers) == ScopeAppend(ConfigRendererHandlers, handlers)

\* The handlers registered so far, on any node.
Registered(props) ==
    SumOver([n \in Node |->
                IF ConfigRendererHandlers \in DOMAIN props[n]
                THEN Len(props[n][ConfigRendererHandlers].v) ELSE 0], Node)

\* The resolution of a deferred template by its user, the build:
\* self.render(value).getRenderingFor(props) for a string value.
CallGetRenderingFor(self, value, props) ==
    /\ Built
    /\ ret = NoCall
    /\ self \in Nodes
    /\ LET r == GetRenderingFor(properties, Render(self, value), props)
       IN ret' = [op |-> "getRenderingFor", node |-> self, value |-> value,
                  props |-> props, st |-> r.st, val |-> r.val,
                  format_vars |-> r.format_vars, calls |-> r.calls]
    /\ UNCHANGED <<top, created, parent, children, isPrivate, classOf, properties, active>>

\* The caller takes self.get_rendered(name) and self.get_interpolated(name)
\* at the same point of the configuration (lines 193-199 and 163-169) and
\* keeps both; then is the tree as it was at that point.
CallGetRenderedAndInterpolated(self, name) ==
    /\ ret = NoCall
    /\ self \in Nodes
    /\ ret' = [op |-> "get_rendered", node |-> self, name |-> name,
               rendered |-> GetRendered(properties, self, name),
               interpolated |-> GetInterpolated(properties, self, name),
               then |-> properties]
    /\ UNCHANGED <<top, created, parent, children, isPrivate, classOf, properties, active>>

\* Scope.set(name, value), lines 80-84, while the caller keeps the renderer
\* and the interpolated value it took.
SetWhileKept(name, value) ==
    /\ ret.op = "get_rendered"
    /\ top # NoNode
    /\ properties' = [properties EXCEPT ![top] =
            [k \in DOMAIN @ \cup {name} |-> IF k = name THEN value ELSE @[k]]]
    /\ Size(properties') <= MaxEntries
    /\ UNCHANGED <<top, created, parent, children, isPrivate, classOf, active, ret>>

\* renderer.getRenderingFor(props), lines 1163-1183, on the renderer kept.
CallResolveKept(props) ==
    /\ ret.op = "get_rendered"
    /\ ret.rendered.st = "ok"
    /\ ret.rendered.val.t = "renderer"
    /\ LET r == GetRenderingFor(properties, ret.rendered.val, props)
       IN ret' = [op |-> "resolve", node |-> ret.node, name |-> ret.name,
                  rendered |-> ret.rendered, interpolated |-> ret.interpolated,
                  then |-> ret.then, st |-> r.st, val |-> r.val]
    /\ UNCHANGED <<top, created, parent, children, isPrivate, classOf, properties, active>>

\* A call of self.get_properties_names(prefix) (lines 255-266) by a user of
\* the finished tree: it builds a new set and stores nothing.
CallGetPropertiesNames(self, prefix) ==
    /\ Built
    /\ self \in Nodes
    /\ ret' = [op |-> "get_properties_names", node |-> self, prefix |-> prefix,
               val |-> PropertiesNames(properties, self, prefix, FALSE)]
    /\ UNCHANGED <<top, created, parent, children, isPrivate, classOf, properties, active>>

\* A call of self.get_interpolated(name) by a user of the finished tree
\* (lines 163-169): the tree is left as its get leaves it.
CallGetInterpolated(self, name) ==
    /\ Built
    /\ self \in Nodes
    /\ LET r == GetInterpolated(properties, self, name)
       IN ret' = [op |-> "get_interpolated", node |-> self, name |-> name,
                  st |-> r.st, val |-> r.val]
    /\ properties' = GetRec(properties, self, name, NoneV, FALSE).props
    /\ UNCHANGED <<top, created, parent, children, isPrivate, classOf, active>>

\* A call of self.get_rendered(name) by a user of the finished tree (lines
\* 193-199): the tree is left as its get leaves it.
CallGetRendered(self, name) ==
    /\ Built
    /\ self \in Nodes
    /\ LET r == GetRendered(properties, self, name)
       IN ret' = [op |-> "get_rendered", node |-> self, name |-> name,
                  st |-> r.st, val |-> r.val]
    /\ properties' = GetRec(properties, self, name, NoneV, FALSE).props
    /\ UNCHANGED <<top, created, parent, children, isPrivate, classOf, active>>

\* A call of self.build(config) on a node of the finished tree, as
\* Config.build_config makes it on the root (lines 462-465).
CallBuild(self, config) ==
    /\ Built
    /\ ret = NoCall
    /\ self \in Nodes
    /\ ret' = [op |-> "build", node |-> self, config |-> config,
               calls |-> Build(children, self, config)]
    /\ UNCHANGED <<top, created, parent, children, isPrivate, classOf, properties, active>>

\* A call of self.build(config) on the root of the finished tree, with
\* what the hooks of the Builders and Triggers do.
CallBuildHooks(config) ==
    /\ Built
    /\ ret = NoCall
    /\ LET calls == Build(children, 1, config)
           walk == RunHooks(properties, parent, classOf, calls, 1, StartOfWalk)
       IN ret' = [op |-> "build_hooks", node |-> 1, config |-> config, calls |-> calls,
                  st |-> walk.st, names |-> walk.names, steps |-> walk.steps]
    /\ UNCHANGED <<top, created, parent, children, isPrivate, classOf, properties, active>>

\* ------------------------------------------------------------------ inputs
P == <<"p", "_", "x">>
StrA == Str(<<Lit("a")>>)
StrB == Str(<<Lit("b")>>)
DefaultV == Str(<<Lit("d")>>)

GetNames == {P}
Scalars == {StrA, StrB}
Elements == {StrA, StrB}
Updates == {<<"k1", StrA>>, <<"k1", StrB>>, <<"k2", StrA>>}

Init ==
    /\ top = NoNode
    /\ created = 0
    /\ parent = [n \in Node |-> NoNode]
    /\ children = [n \in Node |-> <<>>]
    /\ isPrivate = [n \in Node |-> FALSE]
    /\ classOf = [n \in Node |-> "Scope"]
    /\ properties = [n \in Node |-> EmptyProps]
    /\ active = <<>>
    /\ ret = NoCall

Next ==
    \/ Root
    \/ \E private \in BOOLEAN : With(private)
    \/ ExitWith
    \/ \E name \in GetNames, value \in Scalars : Set(name, value)
    \/ \E name \in GetNames, e \in Elements : ScopeAppend(name, <<e>>)
    \/ \E name \in GetNames, u \in Updates : ScopeUpdate(name, u[1], u[2])
    \/ \E self \in Node, name \in GetNames : CallGet(self, name, DefaultV)
    \/ MutateReturned

Spec == Init /\ [][Next]_vars

\* The tree of the interpolation scenario: the properties x ("a", the integer
\* 3 or the string "{y}") and y ("b"), and the template "{x}-{y}"
\* interpolated on any node.
X == <<"x">>
Y == <<"y">>
Dash == Lit("-")
Int3 == IntV(3)
StrFieldY == Str(<<Ph(Y)>>)
TemplateXY == Str(<<Ph(X), Dash, Ph(Y)>>)

InterpSets == {<<X, StrA>>, <<X, Int3>>, <<X, StrFieldY>>, <<Y, StrB>>}
Templates == {TemplateXY}

NextInterp ==
    \/ Root
    \/ \E private \in BOOLEAN : With(private)
    \/ ExitWith
    \/ \E nv \in InterpSets : Set(nv[1], nv[2])
    \/ \E self \in Node, value \in Templates : CallInterpolate(self, value)

SpecInterp == Init /\ [][NextInterp]_vars

\* The tree of the extraction scenario: s_m ("full"), s_r (the tuple (3, 10)
\* or "{s_m}") and t_m ("b"), extracted for the prefix "s" or
\* for the prefixes ("s", "t") with s_r listed as raw, as rendered, as both or
\* not at all.
PrefixS == <<"s">>
PrefixT == <<"t">>
S_M == <<"s", "_", "m">>
S_R == <<"s", "_", "r">>
T_M == <<"t", "_", "m">>
M == <<"m">>
R == <<"r">>
Full == Str(<<Lit("full")>>)
Retry == TupleV(<<3, 10>>)
FieldS_M == Str(<<Ph(S_M)>>)

ExtractSets == {<<S_M, Full>>, <<S_R, Retry>>, <<S_R, FieldS_M>>, <<T_M, StrB>>}
ExtractCalls == {<<StrPrefix(PrefixS), {}, {}>>,
                 <<StrPrefix(PrefixS), {}, {S_R}>>,
                 <<StrPrefix(PrefixS), {S_R}, {}>>,
                 <<StrPrefix(PrefixS), {S_R}, {S_R}>>,
                 <<TuplePrefixes(<<PrefixS, PrefixT>>), {}, {}>>}

NextExtract ==
    \/ Root
    \/ \E private \in BOOLEAN : With(private)
    \/ ExitWith
    \/ \E nv \in ExtractSets : Set(nv[1], nv[2])
    \/ \E self \in Node, call \in ExtractCalls : CallExtract(self, call[1], call[2], call[3])

SpecExtract == Init /\ [][NextExtract]_vars

\* The tree of the construction scenario: s_m ("full" or "b") and s_r (the
\* tuple (3, 10)); an object is built from the prefix "s" with no
\* positional list, with ("m",) or with ("r", "m"), and with or without the
\* additional argument r = "a".
BuildSets == {<<S_M, Full>>, <<S_M, StrB>>, <<S_R, Retry>>}
Positionals == {NoneV, TupleV(<<M>>), TupleV(<<R, M>>)}
Additionals == {NoneV, DictV([k \in {R} |-> StrA])}

NextBuild ==
    \/ Root
    \/ \E private \in BOOLEAN : With(private)
    \/ ExitWith
    \/ \E nv \in BuildSets : Set(nv[1], nv[2])
    \/ \E self \in Node, positional \in Positionals, additional \in Additionals :
          CallBuildClass(self, StrPrefix(PrefixS), positional, {}, {}, additional)

SpecBuild == Init /\ [][NextBuild]_vars

\* The with statements of the stack scenario: nodes are constructed inside or
\* outside a with statement, entered when constructed or later, and left by
\* the end of the block or by an exception. Private inherits __enter__ and
\* __exit__ as they are: the nodes are plain scopes.
ExTypes == {"None", "Exception"}

NextStack ==
    \/ Root
    \/ With(FALSE)
    \/ New(FALSE)
    \/ \E self \in Node : EnterNode(self)
    \/ \E ex_type \in ExTypes : Exit(ex_type)

SpecStack == Init /\ [][NextStack]_vars

\* The tree of the checked assignments: plain scopes are created and left,
\* and x is assigned with and without a value, with and without an expected
\* type, inside the blocks and outside all of them.
CheckedNames == {X}
CheckedValues == {NoneV, StrA, Int3, BoolV(TRUE)}
ExpectedTypes == {"None", "basestring", "int"}

NextChecked ==
    \/ Root
    \/ With(FALSE)
    \/ ExitWith
    \/ \E name \in CheckedNames : \E value \in CheckedValues :
         \E expected_type \in ExpectedTypes : SetChecked(name, value, expected_type)

SpecChecked == Init /\ [][NextChecked]_vars

\* The tree of the namespace scenario: x ("a", "b" or the integer 3) and
\* y ("b") set on any nodes, and the namespace of any node gathered.
ValueSets == {<<X, StrA>>, <<X, StrB>>, <<X, Int3>>, <<Y, StrB>>}

NextValues ==
    \/ Root
    \/ \E private \in BOOLEAN : With(private)
    \/ ExitWith
    \/ \E nv \in ValueSets : Set(nv[1], nv[2])
    \/ \E self \in Node : CallInterpolationValues(self)

SpecValues == Init /\ [][NextValues]_vars

\* The tree of the rendering scenario: the property x ("a") and the
\* handlers 1, 2, ... registered in that order on any nodes; the template
\* "{x}{h}" is resolved on any node with build properties that give x, h or
\* revisions, or none of them, and with or without changes.
StrAB == Str(<<Lit("a"), Lit("b")>>)
StrBA == Str(<<Lit("b"), Lit("a")>>)
TemplateXH == Str(<<Ph(X), Ph(HandlerKey)>>)
Source == Str(<<Lit("B"), Lit("u"), Lit("i"), Lit("l"), Lit("d")>>)
NoProps == [k \in {} |-> <<StrA, Source>>]
PropsXH(x, h) == [k \in {X, HandlerKey} |-> IF k = X THEN <<x, Source>> ELSE <<h, Source>>]
Contexts ==
    {BuildProperties(NoProps, <<>>),
     BuildProperties([k \in {X} |-> <<StrB, Source>>], <<<<Lit("7")>>, <<Lit("8")>>>>),
     BuildProperties(PropsXH(StrA, StrBA), <<>>),
     BuildProperties(PropsXH(StrAB, StrA), <<>>),
     BuildProperties(PropsXH(StrAB, StrBA), <<>>),
     BuildProperties([k \in {Revisions} |-> <<StrA, Source>>], <<>>)}

NextRender ==
    \/ Root
    \/ \E private \in BOOLEAN : With(private)
    \/ ExitWith
    \/ Set(X, StrA)
    \/ \E id \in 1..MaxEntries :
          /\ id = Registered(properties) + 1
          /\ AddRendererHandlers(<<Handler(id)>>)
    \/ \E self \in Node, props \in Contexts : CallGetRenderingFor(self, TemplateXH, props)

SpecRender == Init /\ [][NextRender]_vars

\* The trees of the build walk: scopes and Private nodes constructed in
\* nested with statements or without one, and the walk started on any node with one of two context
\* objects.
BuildConfigs == {"config1", "config2"}

NextWalk ==
    \/ Root
    \/ \E private \in BOOLEAN : With(private)
    \/ \E private \in BOOLEAN : New(private)
    \/ ExitWith
    \/ \E self \in Node, config \in BuildConfigs : CallBuild(self, config)

SpecWalk == Init /\ [][NextWalk]_vars

\* The tree of the deferred scenario: plain scopes with the template t
\* ("{x}") and x ("a" or "b"); the renderer and the interpolated value of t
\* are taken on any node at any point, x and t are set again after that, and
\* the renderer is resolved with no build property and no change.
Tpl == <<"t">>
TemplateX == Str(<<Ph(X)>>)
DeferredSets == {<<Tpl, TemplateX>>, <<X, StrA>>, <<X, StrB>>}

NextDeferred ==
    \/ Root
    \/ With(FALSE)
    \/ ExitWith
    \/ \E nv \in DeferredSets : Set(nv[1], nv[2])
    \/ \E self \in Node : CallGetRenderedAndInterpolated(self, Tpl)
    \/ \E nv \in DeferredSets : SetWhileKept(nv[1], nv[2])
    \/ CallResolveKept(BuildProperties(NoProps, <<>>))

SpecDeferred == Init /\ [][NextDeferred]_vars

\* The tree of the discovery scenario: the properties s_m, t_m, s and sm set
\* on any nodes, and the names with the prefix s or t discovered on any node.
SM == <<"s", "m">>
DiscoveryNames == {S_M, T_M, PrefixS, SM}

NextNames ==
    \/ Root
    \/ \E private \in BOOLEAN : With(private)
    \/ ExitWith
    \/ \E name \in DiscoveryNames : Set(name, StrA)
    \/ \E self \in Node : \E prefix \in {PrefixS, PrefixT} :
         CallGetPropertiesNames(self, prefix)

SpecNames == Init /\ [][NextNames]_vars

\* The tree of the query scenario: p_x set as the string "a", a list of "a"
\* or a dict with "a" under k1 on any nodes, and every query made on any node
\* of the finished tree, again and again.
PrefixP == <<"p">>

NextQuery ==
    \/ Root
    \/ \E private \in BOOLEAN : With(private)
    \/ ExitWith
    \/ Set(P, StrA)
    \/ ScopeAppend(P, <<StrA>>)
    \/ ScopeUpdate(P, "k1", StrA)
    \/ \E self \in Node : CallGet(self, P, DefaultV)
    \/ \E self \in Node : CallGetInterpolated(self, P)
    \/ \E self \in Node : CallGetRendered(self, P)
    \/ \E self \in Node : CallGetPropertiesNames(self, PrefixP)
    \/ \E self \in Node : CallExtract(self, StrPrefix(PrefixP), {P}, {})

SpecQuery == Init /\ [][NextQuery]_vars

\* The tree of the nested blocks: every scope is constructed by "with
\* Scope():" or "with Private():" (Scope.push does the same, lines 119-125),
\* x and y are set in the blocks, and a block ends normally or by an
\* exception.
NextNested ==
    \/ Root
    \/ \E private \in BOOLEAN : With(private)
    \/ \E nv \in ValueSets : Set(nv[1], nv[2])
    \/ \E ex_type \in ExTypes : Exit(ex_type)

SpecNested == Init /\ [][NextNested]_vars

\* The tree of the private scenario: p_x set as the string "a" or "b" or as a
\* list of "a" on any nodes, plain or Private, and get, the names with the
\* prefix p and the interpolation namespace asked of any node.
NextPrivate ==
    \/ Root
    \/ \E private \in BOOLEAN : With(private)
    \/ ExitWith
    \/ \E value \in Scalars : Set(P, value)
    \/ ScopeAppend(P, <<StrA>>)
    \/ \E self \in Node : CallGet(self, P, DefaultV)
    \/ \E self \in Node : CallGetPropertiesNames(self, PrefixP)
    \/ \E self \in Node : CallInterpolationValues(self)

SpecPrivate == Init /\ [][NextPrivate]_vars

\* The tree of the map scenario: p_x set as a dict with "a" or "b" under k1 or
\* as the string "a" on any nodes, plain or Private, and get asked of any
\* node.
NextMaps ==
    \/ Root
    \/ \E private \in BOOLEAN : With(private)
    \/ ExitWith
    \/ \E value \in Elements : ScopeUpdate(P, "k1", value)
    \/ Set(P, StrA)
    \/ \E self \in Node : CallGet(self, P, DefaultV)

SpecMaps == Init /\ [][NextMaps]_vars

\* The tree of the trigger scenario: Builders and Triggers named "a" or "b"
\* and plain scopes, nested in any way under a Config or a Builder, and the
\* finished tree built from its root.
NextTrigger ==
    \/ Root
    \/ With(FALSE)
    \/ \E class \in {"Builder", "Trigger"} : \E name \in {StrA, StrB} :
         WithInstance(class, name)
    \/ ExitWith
    \/ CallBuildHooks("config1")

SpecTrigger == Init /\ [][NextTrigger]_vars

\* The tree of the sync scenario: plain scopes, with Sync.config called in
\* the blocks and outside them with a mode ("full", the unknown "b" or
\* none), a retry (the tuple (3, 10) or none) and nothing else.
SyncModes == {NoneV, Full, StrB}
SyncRetries == {NoneV, Retry}

NextSync ==
    \/ Root
    \/ With(FALSE)
    \/ ExitWith
    \/ \E mode \in SyncModes : \E retry \in SyncRetries :
         SyncConfig(mode, NoneV, retry, NoneV)

SpecSync == Init /\ [][NextSync]_vars

\* ================================================================== claims
\* What the claims speak of, read off the tree.
Stored(n, name) == Local(properties, n, name)

IsScalar(x) == ~IsNone(x) /\ ~IsList(x) /\ ~IsDict(x)

PrivateChildSet(n) == {c \in Nodes : parent[c] = n /\ isPrivate[c]}

RECURSIVE Ancestors(_)
Ancestors(n) ==
    IF parent[n] = NoNode THEN {} ELSE {parent[n]} \cup Ancestors(parent[n])

\* parent.get(name, public_only=True): what the parent resolves along its own
\* parent chain.
ParentGet(n, name) == GetRec(properties, parent[n], name, NoneV, TRUE)

NoPrivateChildStores(n, name) ==
    \A c \in PrivateChildSet(n) : IsNone(Stored(c, name))

GotFrom(n) == ret.op = "get" /\ ret.node = n

\* ---------------------------------------------------------------------- C1
\* C1 as stated: for every scope S that stores a List under P and whose parent
\* resolves P to a List, S.get(P) is S's local list followed by parent.get(P).
C1_LocalThenInherited ==
    \A S \in Nodes :
        (/\ GotFrom(S)
         /\ IsList(Stored(S, ret.name))
         /\ parent[S] # NoNode
         /\ Get(parent[S], ret.name, NoneV).st = "ok"
         /\ IsList(Get(parent[S], ret.name, NoneV).val))
        => /\ ret.st = "ok"
           /\ ret.val = ListV(Stored(S, ret.name).v
                              \o Get(parent[S], ret.name, NoneV).val.v)

\* C1 as amended: for every scope S, not Private, that stores a List under P,
\* whose parent resolves P along its parent chain to a List and none of whose
\* private children stores P, S.get(P) is the parent's list followed by S's
\* local list (inherited entries first, local entries after).
C1_InheritedThenLocal ==
    \A S \in Nodes :
        (/\ GotFrom(S)
         /\ ~isPrivate[S]
         /\ IsList(Stored(S, ret.name))
         /\ parent[S] # NoNode
         /\ ParentGet(S, ret.name).st = "ok"
         /\ IsList(ParentGet(S, ret.name).val)
         /\ NoPrivateChildStores(S, ret.name))
        => /\ ret.st = "ok"
           /\ ret.val = ListV(ParentGet(S, ret.name).val.v \o Stored(S, ret.name).v)

\* The scenario of the claim: the root stores ["a"], its child ["b"], and the
\* child's get has returned ["a", "b"].
C1_Witness ==
    /\ ret.op = "get"
    /\ ret.node = 2
    /\ parent[2] = 1
    /\ ~isPrivate[2]
    /\ Stored(1, P) = ListV(<<StrA>>)
    /\ Stored(2, P) = ListV(<<StrB>>)
    /\ ret.val = ListV(<<StrA, StrB>>)

\* ---------------------------------------------------------------------- C2
\* C2: a List or Map returned by get is a fresh collection: adding an entry
\* to it changes no stored property and no result of a later get.
C2_ReturnedCollectionIsFresh ==
    [][MutateReturned =>
        /\ properties' = properties
        /\ UNCHANGED <<parent, children, isPrivate, classOf>>
        /\ \A n \in Nodes :
             LET before == GetRec(properties, n, P, DefaultV, FALSE)
                 after == GetRec(properties', n, P, DefaultV, FALSE)
             IN after.st = before.st /\ after.val = before.val]_vars

\* get has returned a list with the very entries the node stores, merged
\* from nothing else: the case in which a shared object would show.
C2_Witness ==
    /\ ret.op = "get"
    /\ ret.st = "ok"
    /\ IsList(ret.val)
    /\ ret.val = Stored(ret.node, ret.name)
    /\ ret.ref = Fresh

\* ---------------------------------------------------------------------- C3
\* m updated with the entries of own: every key of either, own's value on a
\* common key.
UpdatedWith(m, own) ==
    [k \in DOMAIN m \cup DOMAIN own |-> IF k \in DOMAIN own THEN own[k] ELSE m[k]]

\* C3 as stated: for every scope S that stores a Map under P while an ancestor
\* also stores a Map under P, S.get(P) is the ancestor's resolved map updated
\* with S's own entries.
C3_AncestorMapUpdated ==
    \A S \in Nodes : \A A \in Ancestors(S) :
        (/\ GotFrom(S)
         /\ IsDict(Stored(S, ret.name))
         /\ IsDict(Stored(A, ret.name)))
        => /\ ret.st = "ok"
           /\ Get(A, ret.name, NoneV).st = "ok"
           /\ IsDict(Get(A, ret.name, NoneV).val)
           /\ ret.val = DictV(UpdatedWith(Get(A, ret.name, NoneV).val.v,
                                          Stored(S, ret.name).v))

\* C3 as amended: for every scope S, not Private, that stores a Map under P,
\* whose parent resolves P along its parent chain to a Map and none of whose
\* private children stores P, S.get(P) is the parent's map updated with S's
\* own entries: every key of either is present, S's value wins on a common key.
C3_ParentMapUpdated ==
    \A S \in Nodes :
        (/\ GotFrom(S)
         /\ ~isPrivate[S]
         /\ IsDict(Stored(S, ret.name))
         /\ parent[S] # NoNode
         /\ ParentGet(S, ret.name).st = "ok"
         /\ IsDict(ParentGet(S, ret.name).val)
         /\ NoPrivateChildStores(S, ret.name))
        => /\ ret.st = "ok"
           /\ ret.val = DictV(UpdatedWith(ParentGet(S, ret.name).val.v,
                                          Stored(S, ret.name).v))

\* The root stores {k1: "a"}, its child {k1: "b"}: the child's get has
\* returned {k1: "b"}.
C3_Witness ==
    /\ ret.op = "get"
    /\ ret.node = 2
    /\ parent[2] = 1
    /\ ~isPrivate[2]
    /\ Stored(1, P) = DictV([k \in {"k1"} |-> StrA])
    /\ Stored(2, P) = DictV([k \in {"k1"} |-> StrB])
    /\ ret.val = DictV([k \in {"k1"} |-> StrB])

\* ---------------------------------------------------------------------- C4
RECURSIVE Descendants(_)
Descendants(n) ==
    LET kids == {c \in Nodes : parent[c] = n}
    IN kids \cup UNION {Descendants(c) : c \in kids}

\* The nodes that must not see the private child C of S: the ancestors of S,
\* the non-private children of S and their descendants.
Outsiders(S, C) ==
    Ancestors(S)
    \cup {N \in Nodes : parent[N] = S /\ ~isPrivate[N]}
    \cup UNION {Descendants(N) : N \in {c \in Nodes : parent[c] = S /\ ~isPrivate[c]}}

\* The tree with the properties of node C taken away.
Without(C) == [properties EXCEPT ![C] = EmptyProps]

\* What node N observes of a tree whose properties are props.
Observes(props, N, name, prefix) ==
    [st |-> GetRec(props, N, name, DefaultV, FALSE).st,
     val |-> GetRec(props, N, name, DefaultV, FALSE).val,
     names |-> PropertiesNames(props, N, prefix, FALSE),
     values |-> InterpolationValues(props, N, FALSE)]

IsCollection(x) == IsList(x) \/ IsDict(x)

\* Every element of the list, or every key of the map, c occurs in the
\* collection got.
EntriesIncluded(c, got) ==
    \/ /\ IsList(c) /\ IsList(got)
       /\ \A i \in 1..Len(c.v) : \E j \in 1..Len(got.v) : got.v[j] = c.v[i]
    \/ /\ IsDict(c) /\ IsDict(got)
       /\ DOMAIN c.v \subseteq DOMAIN got.v

\* The private children of S constructed before C.
EarlierPrivate(S, C) == {c \in PrivateChildSet(S) : c < C}

\* The keys of the map c that nothing merged before it defines keep c's value.
OwnKeysKept(S, C, name, got) ==
    IsDict(Stored(C, name)) =>
        \A k \in DOMAIN Stored(C, name).v :
            (/\ ~(IsDict(Stored(S, name)) /\ k \in DOMAIN Stored(S, name).v)
             /\ ~(parent[S] # NoNode /\ IsDict(ParentGet(S, name).val)
                    /\ k \in DOMAIN ParentGet(S, name).val.v)
             /\ \A e \in EarlierPrivate(S, C) :
                    ~(IsDict(Stored(e, name)) /\ k \in DOMAIN Stored(e, name).v))
            => got.v[k] = Stored(C, name).v[k]

\* The properties of the private child C of S change nothing of what an
\* ancestor of S, a non-private child of S or a descendant of one gets, finds
\* as property names or gathers as interpolation namespace.
HiddenFromOutsiders(S, C) ==
    \A N \in Outsiders(S, C) :
        Observes(properties, N, P, <<"p">>) = Observes(Without(C), N, P, <<"p">>)

\* C4 as stated: the List/Map entries of a private child C of S are included
\* in S.get(name), and are never seen from an ancestor of S, from a
\* non-private child of S or from its descendants.
C4_PrivateEntriesAlwaysIncluded ==
    \A S \in Nodes : \A C \in PrivateChildSet(S) :
        /\ (GotFrom(S) /\ IsCollection(Stored(C, ret.name)))
           => (ret.st = "ok" /\ EntriesIncluded(Stored(C, ret.name), ret.val))
        /\ HiddenFromOutsiders(S, C)

\* C4 as amended: whenever S.get(name) on a scope S that is not Private
\* returns a List or Map, it includes the List/Map entries of every private
\* child C of S (each element of C's list, each key of C's map, with C's value
\* unless S, the parent chain of S or an earlier private child defines the
\* key); and the properties of C are never seen by get, by property-name
\* discovery or by the interpolation namespace evaluated on an ancestor of S
\* or on a non-private child of S and its descendants.
C4_PrivateEntriesIncludedNotLeaked ==
    \A S \in Nodes : \A C \in PrivateChildSet(S) :
        /\ (/\ GotFrom(S)
            /\ ~isPrivate[S]
            /\ IsCollection(Stored(C, ret.name))
            /\ ret.st = "ok"
            /\ IsCollection(ret.val))
           => /\ EntriesIncluded(Stored(C, ret.name), ret.val)
              /\ OwnKeysKept(S, C, ret.name, ret.val)
        /\ HiddenFromOutsiders(S, C)

\* S stores a list, its private child another, S.get has returned both and
\* S has a non-private child from which the private entries are hidden.
C4_Witness ==
    /\ ret.op = "get"
    /\ ret.node = 1
    /\ parent[2] = 1 /\ isPrivate[2]
    /\ parent[3] = 1 /\ ~isPrivate[3]
    /\ Stored(2, P) = ListV(<<StrB>>)
    /\ Stored(1, P) = ListV(<<StrA>>)
    /\ ret.val = ListV(<<StrB, StrA>>)
    /\ GetRec(properties, 3, P, DefaultV, FALSE).val = ListV(<<StrA>>)

\* ---------------------------------------------------------------------- C5
\* The first scalar met walking from n up the whole parent chain.
RECURSIVE FirstScalarUp(_, _)
FirstScalarUp(n, name) ==
    IF n = NoNode THEN NoneV
    ELSE IF IsScalar(Stored(n, name)) THEN Stored(n, name)
    ELSE FirstScalarUp(parent[n], name)

\* The same walk, ending at the first Private node (which has no related
\* scope).
RECURSIVE FirstScalarSeen(_, _)
FirstScalarSeen(n, name) ==
    IF n = NoNode THEN NoneV
    ELSE IF IsScalar(Stored(n, name)) THEN Stored(n, name)
    ELSE IF isPrivate[n] THEN NoneV
    ELSE FirstScalarSeen(parent[n], name)

\* C5 as stated: get(name) on S returns the first non-absent Scalar found
\* walking from S up its parent chain.
C5_FirstScalarUpTheChain ==
    \A S \in Nodes :
        (GotFrom(S) /\ ~IsNone(FirstScalarUp(S, ret.name)))
        => (ret.st = "ok" /\ ret.val = FirstScalarUp(S, ret.name))

\* C5 as amended: when S stores a scalar itself, or no private child of S
\* stores a value under name, get(name) on S returns the first non-absent
\* Scalar found walking from S up its parent chain as far as the first
\* Private node: S's own scalar at once, a nearer ancestor's scalar before a
\* farther one's.
C5_FirstScalarSeen ==
    \A S \in Nodes :
        (/\ GotFrom(S)
         /\ ~IsNone(FirstScalarSeen(S, ret.name))
         /\ (IsScalar(Stored(S, ret.name)) \/ NoPrivateChildStores(S, ret.name)))
        => (ret.st = "ok" /\ ret.val = FirstScalarSeen(S, ret.name))

\* The root stores "a", its child "b", and get on the grandchild, which
\* stores nothing, has returned "b".
C5_Witness ==
    /\ ret.op = "get"
    /\ ret.node = 3
    /\ parent[3] = 2
    /\ parent[2] = 1
    /\ Stored(1, P) = StrA
    /\ Stored(2, P) = StrB
    /\ IsNone(Stored(3, P))
    /\ ret.val = StrB

\* ---------------------------------------------------------------------- C6
\* The related scopes get consults on S, with the value each resolves.
RelatedOf(S) ==
    {RelatedScopes(parent, children, isPrivate, S, FALSE)[i] :
        i \in 1..Len(RelatedScopes(parent, children, isPrivate, S, FALSE))}

ResolvesTo(r, name, kind) ==
    /\ GetRec(properties, r, name, NoneV, TRUE).st = "ok"
    /\ GetRec(properties, r, name, NoneV, TRUE).val.t = kind

ReturnedDefault == ret.st = "ok" /\ ret.ref = DefaultRef /\ ret.val = ret.default

\* The scopes the resolution of S consults: S, its private children and its
\* parent chain as far as the first Private node; S alone when S is Private.
RECURSIVE ChainSeen(_)
ChainSeen(n) ==
    IF n = NoNode THEN {}
    ELSE IF isPrivate[n] THEN {n}
    ELSE {n} \cup ChainSeen(parent[n])

Consulted(S) ==
    IF isPrivate[S] THEN {S}
    ELSE {S} \cup PrivateChildSet(S) \cup ChainSeen(parent[S])

\* C7 as stated: get(name, default) returns the default exactly when neither
\* S, nor an ancestor of S, nor a private child of S holds a non-absent value.
C7_DefaultIffNothingUpTheChain ==
    \A S \in Nodes :
        GotFrom(S) =>
            (ReturnedDefault <=>
                \A n \in {S} \cup Ancestors(S) \cup PrivateChildSet(S) :
                    IsNone(Stored(n, ret.name)))

\* C7 as amended: get(name, default) returns the default exactly when none of
\* the scopes the resolution consults holds a non-absent value under name: S,
\* and unless S is Private its private children and its ancestors up to and
\* including the first Private one.
C7_DefaultIffNothingConsulted ==
    \A S \in Nodes :
        GotFrom(S) =>
            (ReturnedDefault <=>
                \A n \in Consulted(S) : IsNone(Stored(n, ret.name)))

\* get has returned the default on a node whose parent chain holds nothing
\* while another node of the tree does store the name.
C7_Witness ==
    /\ ret.op = "get"
    /\ ReturnedDefault
    /\ ret.val = DefaultV
    /\ created = 3
    /\ \E n \in Nodes : ~IsNone(Stored(n, ret.name))

\* ---------------------------------------------------------------------- C8
\* The names of the {name} fields of a string.
Placeholders(tokens) == {tokens[i].s : i \in {j \in 1..Len(tokens) : tokens[j].ph}}

\* The string with every field replaced by its entry of the namespace,
\* written from the last token back.
RECURSIVE Substituted(_, _)
Substituted(tokens, namespace) ==
    IF Len(tokens) = 0 THEN <<>>
    ELSE LET last == tokens[Len(tokens)]
         IN Substituted(SubSeq(tokens, 1, Len(tokens) - 1), namespace)
            \o (IF last.ph THEN namespace[last.s].v ELSE <<last>>)

\* The nearest string stored under name walking from n up its parent chain.
RECURSIVE NearestString(_, _)
NearestString(n, name) ==
    IF n = NoNode THEN NoneV
    ELSE IF IsString(Stored(n, name)) THEN Stored(n, name)
    ELSE NearestString(parent[n], name)

\* No Private node on the chain of S or among its children.
PlainChain(S) ==
    /\ \A n \in {S} \cup Ancestors(S) : ~isPrivate[n]
    /\ PrivateChildSet(S) = {}

Interpolated(S) == ret.op = "interpolate" /\ ret.node = S /\ IsString(ret.value)

\* C8: interpolating a string on scope S replaces every {name} field by the
\* entry of S's interpolation namespace; when a field has no entry the call
\* fails with KeyError (the MissingKey error) and returns no string, neither a
\* partly substituted one nor a default. On a chain without Private nodes the
\* entries are the nearest strings up the chain: "{x}-{y}" with x = "a" and
\* y = "b" there gives "a-b".
C8_InterpolateSubstitutesOrFails ==
    \A S \in Nodes :
        Interpolated(S) =>
            LET namespace == InterpolationValues(properties, S, FALSE)
                x == NearestString(S, X)
                y == NearestString(S, Y)
            IN /\ IF Placeholders(ret.value.v) \subseteq DOMAIN namespace
                  THEN /\ ret.st = "ok"
                       /\ ret.val = Str(Substituted(ret.value.v, namespace))
                  ELSE /\ ret.st = KeyError
                       /\ ret.val = NoneV
               /\ (PlainChain(S) /\ ret.value = TemplateXY /\ IsString(x) /\ IsString(y))
                     => (ret.st = "ok" /\ ret.val = Str(x.v \o <<Dash>> \o y.v))
               /\ (PlainChain(S) /\ ret.value = TemplateXY /\ (IsNone(x) \/ IsNone(y)))
                     => ret.st = KeyError

\* "{x}-{y}" has been interpolated to "a-b" on a node that stores y = "b" and
\* has x = "a" from an ancestor.
C8_Witness ==
    /\ ret.op = "interpolate"
    /\ ret.value = TemplateXY
    /\ ret.st = "ok"
    /\ ret.val = Str(<<Lit("a"), Dash, Lit("b")>>)
    /\ Stored(ret.node, Y) = StrB
    /\ IsNone(Stored(ret.node, X))
    /\ \E a \in Ancestors(ret.node) : Stored(a, X) = StrA

\* Interpolation has failed with KeyError on a node whose namespace lacks y.
C8_WitnessMissing ==
    /\ ret.op = "interpolate"
    /\ ret.st = KeyError
    /\ X \in DOMAIN InterpolationValues(properties, ret.node, FALSE)
    /\ Y \notin DOMAIN InterpolationValues(properties, ret.node, FALSE)

\* ---------------------------------------------------------------------- C9
Extracted(S) == ret.op = "extract" /\ ret.node = S

\* The name with the prefix and its separator removed.
Stripped(name, prefix) ==
    [i \in 1..(Len(name) - Len(prefix) - 1) |-> name[i + Len(prefix) + 1]]

\* What get, get then render, and get then interpolate give for a name on S.
PlainOf(S, name) == Get(S, name, NoneV)
RenderedOf(S, name) == Render(S, PlainOf(S, name).val)
InterpolatedOf(S, name) == Interpolate(properties, S, PlainOf(S, name).val)

\* The extraction of one prefix returns one entry per name of
\* get_properties_names(prefix), keyed by the stripped name.
EntryPerName(S, prefix) ==
    DOMAIN ret.val.v =
        {Stripped(name, prefix) : name \in PropertiesNames(properties, S, prefix, FALSE)}

\* C9 as stated: extraction for a prefix p returns one entry per name with the
\* prefix, keyed by the name with "p_" removed; its value is the plain get
\* result for the names listed as raw, the deferred-rendered value for the
\* names listed as rendered, the eagerly interpolated value for every other.
C9_RawRenderedElseInterpolated ==
    \A S \in Nodes :
        (Extracted(S) /\ ret.st = "ok" /\ Len(AsTuple(ret.prefixes)) = 1) =>
            LET prefix == AsTuple(ret.prefixes)[1]
            IN /\ EntryPerName(S, prefix)
               /\ \A name \in PropertiesNames(properties, S, prefix, FALSE) :
                     LET entry == ret.val.v[Stripped(name, prefix)]
                     IN /\ name \in ret.raw => entry = PlainOf(S, name).val
                        /\ name \in ret.rendered => entry = RenderedOf(S, name)
                        /\ name \notin ret.raw \cup ret.rendered
                              => entry = InterpolatedOf(S, name).val

\* A lookup of the extraction raises: the get of a name, or the interpolation
\* of a name listed neither as raw nor as rendered.
SomeLookupFails(S, prefix) ==
    \E name \in PropertiesNames(properties, S, prefix, FALSE) :
        \/ PlainOf(S, name).st # "ok"
        \/ /\ name \notin ret.raw \cup ret.rendered
           /\ InterpolatedOf(S, name).st # "ok"

\* C9 as amended: a name listed both as raw and as rendered is rendered; the
\* plain get result is the value of the names listed as raw only. The
\* extraction returns unless one of its lookups fails.
C9_RenderedElseRawElseInterpolated ==
    \A S \in Nodes :
        (Extracted(S) /\ Len(AsTuple(ret.prefixes)) = 1) =>
            LET prefix == AsTuple(ret.prefixes)[1]
            IN /\ ret.st # "ok" <=> SomeLookupFails(S, prefix)
               /\ ret.st = "ok" =>
                    /\ EntryPerName(S, prefix)
                    /\ \A name \in PropertiesNames(properties, S, prefix, FALSE) :
                          ret.val.v[Stripped(name, prefix)] =
                              IF name \in ret.rendered THEN RenderedOf(S, name)
                              ELSE IF name \in ret.raw THEN PlainOf(S, name).val
                              ELSE InterpolatedOf(S, name).val

\* The prefix "s" has been extracted with s_r listed as raw from a node that
\* has s_m = "full" and s_r = (3, 10): the result is {"m": "full", "r": (3, 10)}.
C9_Witness ==
    /\ ret.op = "extract"
    /\ ret.prefixes = StrPrefix(PrefixS)
    /\ ret.raw = {S_R}
    /\ ret.rendered = {}
    /\ ret.st = "ok"
    /\ ret.val = DictV([k \in {M, R} |-> IF k = M THEN Full ELSE Retry])

\* --------------------------------------------------------------------- C10
DuplicateKey == "DuplicateKey"

\* The value an extraction fetches for a name.
FetchedOf(S, name) ==
    IF name \in ret.rendered THEN [st |-> PlainOf(S, name).st, val |-> RenderedOf(S, name)]
    ELSE IF name \in ret.raw THEN [st |-> PlainOf(S, name).st, val |-> PlainOf(S, name).val]
    ELSE IF PlainOf(S, name).st # "ok" THEN [st |-> PlainOf(S, name).st, val |-> NoneV]
    ELSE InterpolatedOf(S, name)

\* Two different prefixes of the call give the same stripped key with
\* different values, every lookup succeeding.
Conflicting(S) ==
    LET prefixes == SeqRange(AsTuple(ret.prefixes))
        names(p) == PropertiesNames(properties, S, p, FALSE)
    IN /\ \A p \in prefixes : \A name \in names(p) : FetchedOf(S, name).st = "ok"
       /\ \E p, q \in prefixes :
             /\ p # q
             /\ \E n1 \in names(p), n2 \in names(q) :
                   /\ Stripped(n1, p) = Stripped(n2, q)
                   /\ FetchedOf(S, n1).val # FetchedOf(S, n2).val

\* C10: an extraction called with several prefixes fails with DuplicateKey
\* whenever two different prefixes give the same stripped key with
\* conflicting values; it never returns a bundle in which one of the two
\* values replaced the other.
C10_ConflictFailsWithDuplicateKey ==
    \A S \in Nodes :
        (Extracted(S) /\ Conflicting(S)) => ret.st = DuplicateKey

\* The prefixes ("s", "t") have been extracted from a node that has
\* s_m = "full" and t_m = "b": the call returned {"m": "b"}.
C10_Witness ==
    /\ ret.op = "extract"
    /\ ret.prefixes = TuplePrefixes(<<PrefixS, PrefixT>>)
    /\ Conflicting(ret.node)
    /\ ret.st = "ok"
    /\ ret.val = DictV([k \in {M} |-> StrB])

\* The same extraction, on the same tree, returned {"m": "full"}.
C10_WitnessOtherOrder ==
    /\ ret.op = "extract"
    /\ ret.prefixes = TuplePrefixes(<<PrefixS, PrefixT>>)
    /\ Conflicting(ret.node)
    /\ ret.st = "ok"
    /\ ret.val = DictV([k \in {M} |-> Full])

\* --------------------------------------------------------------------- C11
\* The bundle of a construction: the extraction of the prefix, updated with
\* the caller's additional arguments.
BundleOf(S) ==
    LET extracted == CHOOSE r \in GetPrefixedProperties(properties, S, ret.prefixes,
                                                        ret.rendered, ret.raw) : TRUE
        more == IF IsNone(ret.additional) THEN EmptyDict ELSE ret.additional.v
    IN [k \in DOMAIN extracted.val.v \cup DOMAIN more |->
           IF k \in DOMAIN more THEN more[k] ELSE extracted.val.v[k]]

Required == IF IsNone(ret.positional) THEN <<>> ELSE ret.positional.v

\* C11: a construction from an extracted bundle with a list of required keys
\* fails with AssertionError (the MissingRequiredKey error), the target
\* constructor not being called, if a listed key is absent from the bundle
\* with the additional arguments merged in; otherwise the constructor gets the
\* required values positionally in the listed order, and as keywords the
\* bundle without the required keys.
C11_RequiredKeysPositionalOrFail ==
    \A S \in Nodes :
        (ret.op = "build_class" /\ ret.node = S /\ ret.st # KeyError) =>
            LET bundle == BundleOf(S)
            IN IF \E i \in 1..Len(Required) : Required[i] \notin DOMAIN bundle
               THEN ret.st = AssertionError /\ ret.val = NoneV
               ELSE /\ ret.st = "ok"
                    /\ ret.val.t = "object"
                    /\ ret.val.args = [i \in 1..Len(Required) |-> bundle[Required[i]]]
                    /\ ret.val.kwargs =
                          [k \in DOMAIN bundle \ SeqRange(Required) |-> bundle[k]]

\* An object has been built with the required keys ("r", "m"), r given as
\* additional argument and m extracted: the constructor got ("a", "full") and
\* no keyword.
C11_Witness ==
    /\ ret.op = "build_class"
    /\ ret.positional = TupleV(<<R, M>>)
    /\ ~IsNone(ret.additional)
    /\ ret.st = "ok"
    /\ ret.val = Constructed(<<StrA, Full>>, EmptyDict)

\* A construction has failed for the required key "r", the bundle holding
\* "m" only.
C11_WitnessMissing ==
    /\ ret.op = "build_class"
    /\ ret.positional = TupleV(<<R, M>>)
    /\ IsNone(ret.additional)
    /\ DOMAIN BundleOf(ret.node) = {M}
    /\ ret.st = AssertionError

\* --------------------------------------------------------------------- C12
\* C12: leaving a scope N, by the end of its block or by an exception raised
\* in it, sets Scope._top back to the node that was top immediately before N
\* was entered, whether or not N was entered immediately after it was
\* constructed.
C12_ExitRestoresPriorTop ==
    [][\A ex_type \in ExTypes :
          Exit(ex_type) => top' = active[Len(active)].was]_vars

\* What the code does: leaving N sets Scope._top to the parent of N, the node
\* that was top when N was constructed.
C12_ExitSetsParent ==
    [][\A ex_type \in ExTypes :
          Exit(ex_type) => top' = parent[active[Len(active)].node]]_vars

\* A node entered once, under another top than its parent, has been left by
\* an exception, no node being entered twice: Scope._top is its parent, not
\* the node that was top before, whose block is still open.
C12_Witness ==
    /\ ret.op = "exit"
    /\ ret.ex_type = "Exception"
    /\ top = parent[ret.node]
    /\ active # <<>>
    /\ active[Len(active)].node # top
    /\ top # NoNode
    /\ \A i \in 1..Len(active) : active[i].node # ret.node
    /\ \A i, j \in 1..Len(active) : active[i].node = active[j].node => i = j

\* --------------------------------------------------------------------- C13
ActiveNodes == {active[i].node : i \in 1..Len(active)}

\* C13: entering a node that is already active, the current top or one deeper
\* in the stack of open blocks, fails with AssertionError (the IllegalReentry
\* error) and leaves Scope._top unchanged.
C13_ReentryFails ==
    [][\A self \in Node :
          (EnterNode(self) /\ self \in ActiveNodes)
              => (ret'.st = AssertionError /\ top' = top)]_vars

\* What the code does: entering the node that is the current top fails and
\* changes nothing; entering any other node succeeds and makes it the top.
C13_ReentryOfTopFails ==
    [][\A self \in Node :
          EnterNode(self) =>
              IF self = top
              THEN ret'.st = AssertionError /\ top' = top /\ active' = active
              ELSE ret'.st = "ok" /\ top' = self]_vars

\* A node whose block is open below the top has been entered again: it is
\* twice in the stack of open blocks and is the top.
C13_Witness ==
    /\ ret.op = "enter"
    /\ ret.st = "ok"
    /\ top = ret.node
    /\ \E i \in 1..(Len(active) - 1) : active[i].node = ret.node

\* --------------------------------------------------------------------- C14
\* A deferred template has been resolved on S as far as its final namespace.
Resolved(S) ==
    /\ ret.op = "getRenderingFor"
    /\ ret.node = S
    /\ ret.st \in {"ok", KeyError}

\* The value the build properties give for a key.
Supplied(props, key) == props.dict[key][1]

\* C14 as stated: when a deferred template is resolved, every key of the
\* build properties is in the final namespace with its runtime value, which
\* takes precedence over the value the origin scope's namespace or a handler
\* gave the key.
C14_RuntimeKeysWin ==
    \A S \in Nodes :
        Resolved(S) =>
            \A key \in DOMAIN ret.props.dict :
                /\ key \in DOMAIN ret.format_vars
                /\ ret.format_vars[key] = Supplied(ret.props, key)

\* C14 as amended: every key of the build properties other than "revisions"
\* is in the final namespace with its runtime value, whatever the scope's
\* namespace or a handler gave it; "revisions" is always there with the
\* revisions of the build's changes joined by spaces, whatever the build
\* properties, the scope or a handler gave it.
C14_RuntimeKeysWinButRevisions ==
    \A S \in Nodes :
        Resolved(S) =>
            /\ \A key \in DOMAIN ret.props.dict \ {Revisions} :
                  /\ key \in DOMAIN ret.format_vars
                  /\ ret.format_vars[key] = Supplied(ret.props, key)
            /\ Revisions \in DOMAIN ret.format_vars
            /\ ret.format_vars[Revisions] =
                  Str(IF ret.props.changes = <<>> THEN <<>>
                      ELSE LET n == Len(ret.props.changes)
                               last == ret.props.changes[n]
                           IN Join(Lit(" "), SubSeq(ret.props.changes, 1, n - 1))
                              \o (IF n > 1 THEN <<Lit(" ")>> ELSE <<>>) \o last)

\* A template has been resolved with build properties that give x and h, on
\* a node whose namespace has another x and after a handler wrote h: the
\* final namespace has the runtime values of both.
C14_Witness ==
    /\ ret.op = "getRenderingFor"
    /\ ret.calls # <<>>
    /\ {X, HandlerKey} \subseteq DOMAIN ret.props.dict
    /\ X \in DOMAIN InterpolationValues(properties, ret.node, FALSE)
    /\ InterpolationValues(properties, ret.node, FALSE)[X] # Supplied(ret.props, X)
    /\ ret.format_vars[X] = Supplied(ret.props, X)
    /\ ret.format_vars[HandlerKey] = Supplied(ret.props, HandlerKey)
    /\ ret.st = "ok"

\* --------------------------------------------------------------------- C15
\* Another resolution of the template resolved last, on the unchanged tree.
ResolvedAgain(props) ==
    GetRenderingFor(properties, Render(ret.node, ret.value), props)

\* C15 as stated: two resolutions of a deferred template with the same build
\* properties on an unchanged tree give equal strings, and two resolutions
\* whose build properties give different values to a placeholder of the
\* template give different strings.
C15_DifferentValuesDifferentStrings ==
    (ret.op = "getRenderingFor" /\ ret.st = "ok") =>
        /\ ResolvedAgain(ret.props).val = ret.val
        /\ \A props \in Contexts :
              (/\ ResolvedAgain(props).st = "ok"
               /\ \E key \in Placeholders(ret.value.v) :
                     /\ key \in DOMAIN props.dict \cap DOMAIN ret.props.dict
                     /\ Supplied(props, key) # Supplied(ret.props, key))
                 => ResolvedAgain(props).val # ret.val

\* The build properties differ in the value of the one key, and in nothing
\* else.
DifferOnlyIn(key, props1, props2) ==
    /\ DOMAIN props1.dict = DOMAIN props2.dict
    /\ key \in DOMAIN props1.dict
    /\ Supplied(props1, key) # Supplied(props2, key)
    /\ \A k \in DOMAIN props1.dict \ {key} : props1.dict[k] = props2.dict[k]
    /\ props1.changes = props2.changes

\* C15 as amended: two resolutions with the same build properties on an
\* unchanged tree give equal strings, and two resolutions whose build
\* properties differ only in the value of one placeholder of the template,
\* other than "revisions", give different strings.
C15_OneValueDifferentDifferentStrings ==
    (ret.op = "getRenderingFor" /\ ret.st = "ok") =>
        /\ ResolvedAgain(ret.props).val = ret.val
        /\ \A props \in Contexts :
              (\E key \in Placeholders(ret.value.v) \ {Revisions} :
                   DifferOnlyIn(key, props, ret.props))
                 => /\ ResolvedAgain(props).st = "ok"
                    /\ ResolvedAgain(props).val # ret.val

\* "{x}{h}" has been resolved to "abba" with x = "ab" and h = "ba", and the
\* build properties with x = "a" and the same h resolve it to another string.
C15_Witness ==
    /\ ret.op = "getRenderingFor"
    /\ ret.st = "ok"
    /\ ret.props = BuildProperties(PropsXH(StrAB, StrBA), <<>>)
    /\ ret.val = Str(<<Lit("a"), Lit("b"), Lit("b"), Lit("a")>>)
    /\ DifferOnlyIn(X, BuildProperties(PropsXH(StrA, StrBA), <<>>), ret.props)
    /\ ResolvedAgain(BuildProperties(PropsXH(StrA, StrBA), <<>>)).val
          = Str(<<Lit("a"), Lit("b"), Lit("a")>>)

\* --------------------------------------------------------------------- C20
\* The handlers registered on a node, in the order of their registration.
OwnHandlers(n) ==
    IF ConfigRendererHandlers \in DOMAIN properties[n]
    THEN properties[n][ConfigRendererHandlers].v ELSE <<>>

\* The handlers registered on S or on one of its ancestors.
VisibleHandlers(S) ==
    UNION {SeqRange(OwnHandlers(n)) : n \in {S} \cup Ancestors(S)}

\* The handlers called are in the order of their registration: the handlers
\* are numbered as they are registered.
InRegistrationOrder(calls) ==
    \A i, j \in 1..Len(calls) : i < j => calls[i].id < calls[j].id

\* Each handler called got the namespace as the one before it left it: when
\* the build properties give no "h", it holds the marks of the handlers in
\* the order of the calls.
EachAfterThePrevious ==
    (ret.calls # <<>> /\ HandlerKey \notin DOMAIN ret.props.dict) =>
        ret.format_vars[HandlerKey] =
            Str([i \in 1..Len(ret.calls) |-> HandlerMark(ret.calls[i].id)])

\* C20 as stated: when a deferred template is resolved, every handler of
\* config_renderer_handlers registered on the origin scope or on one of its
\* ancestors is called exactly once, in the order in which the handlers were
\* registered, each one receiving the namespace as the one before left it,
\* for every interleaving of the registrations.
C20_HandlersInRegistrationOrder ==
    \A S \in Nodes :
        Resolved(S) =>
            /\ SeqRange(ret.calls) = VisibleHandlers(S)
            /\ InRegistrationOrder(ret.calls)
            /\ EachAfterThePrevious

\* The handlers a node passes on to its children: those of its parent chain
\* as far as the first Private node, the farthest first, then its own.
RECURSIVE InheritedHandlers(_)
InheritedHandlers(n) ==
    IF n = NoNode THEN <<>>
    ELSE (IF isPrivate[n] THEN <<>> ELSE InheritedHandlers(parent[n])) \o OwnHandlers(n)

\* The handlers of the private children of S, the child constructed last
\* first.
RECURSIVE PrivateChildHandlers(_)
PrivateChildHandlers(cs) ==
    IF cs = <<>> THEN <<>>
    ELSE PrivateChildHandlers(Tail(cs)) \o OwnHandlers(Head(cs))

\* C20 as amended: the handlers called are those of the list
\* S.get('config_renderer_handlers') in the order of that list, each once for
\* each of its registrations and each receiving the namespace as the one
\* before left it: the handlers of the private children of S (the child
\* constructed last first), then the handlers inherited along the parent
\* chain as far as the first Private node (the farthest ancestor first), then
\* the handlers of S; the handlers of one node in the order of their
\* registration on it. A Private S has its own handlers alone.
C20_HandlersInListOrder ==
    \A S \in Nodes :
        Resolved(S) =>
            /\ ret.calls =
                  IF isPrivate[S] THEN OwnHandlers(S)
                  ELSE PrivateChildHandlers(PrivateChildren(children, isPrivate, S))
                       \o InheritedHandlers(parent[S]) \o OwnHandlers(S)
            /\ EachAfterThePrevious

\* A template has been resolved on a node that registered handler 1 before
\* its parent registered handler 2: handler 2 was called first, then handler
\* 1, and "h" holds "21".
C20_Witness ==
    /\ ret.op = "getRenderingFor"
    /\ parent[ret.node] # NoNode
    /\ OwnHandlers(ret.node) = <<Handler(1)>>
    /\ OwnHandlers(parent[ret.node]) = <<Handler(2)>>
    /\ ret.calls = <<Handler(2), Handler(1)>>
    /\ HandlerKey \notin DOMAIN ret.props.dict
    /\ ret.format_vars[HandlerKey] = Str(<<Lit("2"), Lit("1")>>)

\* --------------------------------------------------------------------- C16
\* The position of the call of the hook of node n in the walk.
CallOf(n) == CHOOSE i \in 1..Len(ret.calls) : ret.calls[i].node = n

\* Child c was constructed before child d of the same node.
ConstructedBefore(c, d) ==
    \E i, j \in 1..Len(children[parent[c]]) :
        /\ i < j
        /\ children[parent[c]][i] = c
        /\ children[parent[c]][j] = d

\* C16: the build walk started on a node calls the hook of every node of its
\* subtree exactly once, with the same context object, the hook of a node
\* after the hooks of all its descendants, the children of a node in their
\* construction order.
C16_BuildWalkChildrenFirst ==
    \A S \in Nodes :
        (ret.op = "build" /\ ret.node = S) =>
            LET subtree == {S} \cup Descendants(S)
            IN /\ {ret.calls[i].node : i \in 1..Len(ret.calls)} = subtree
               /\ Len(ret.calls) = Cardinality(subtree)
               /\ \A i \in 1..Len(ret.calls) : ret.calls[i].config = ret.config
               /\ \A n \in subtree : \A d \in Descendants(n) : CallOf(d) < CallOf(n)
               /\ \A c, d \in subtree \ {S} :
                     (parent[c] = parent[d] /\ ConstructedBefore(c, d))
                         => \A x \in {c} \cup Descendants(c) : CallOf(x) < CallOf(d)

\* The walk has been started on the root of a tree of three nodes, the
\* second a child of the root with the third as its child: the hooks were
\* called for 3, 2 and 1 in that order.
C16_Witness ==
    /\ ret.op = "build"
    /\ ret.node = 1
    /\ created = 3
    /\ parent[2] = 1
    /\ parent[3] = 2
    /\ ret.calls = <<Hook(3, ret.config), Hook(2, ret.config), Hook(1, ret.config)>>

\* The walk has been started on a root with two children: the hooks were
\* called for 2, 3 and 1 in that order.
C16_WitnessSiblings ==
    /\ ret.op = "build"
    /\ ret.node = 1
    /\ children[1] = <<2, 3>>
    /\ ret.calls = <<Hook(2, ret.config), Hook(3, ret.config), Hook(1, ret.config)>>

\* --------------------------------------------------------------------- C17
\* The name is stored as a scalar on C, a private child of S, and on no
\* other node.
ScalarOnlyOn(C, S, name) ==
    /\ C \in PrivateChildSet(S)
    /\ IsScalar(Stored(C, name))
    /\ \A n \in Nodes \ {C} : IsNone(Stored(n, name))

\* C17 as stated: a scalar stored only on a private child of S is never
\* returned by S.get(name).
C17_PrivateScalarNeverReturned ==
    \A S \in Nodes : \A C \in Nodes :
        (GotFrom(S) /\ ScalarOnlyOn(C, S, ret.name)) =>
            (ret.st = "ok" /\ ret.val # Stored(C, ret.name))

\* C17 as amended: a scalar stored only on a private child C of S is
\* returned by S.get(name) unless S is Private itself, and then the default
\* is; get returns it on no other node than S, C and the descendants of C.
C17_PrivateScalarReturnedToParent ==
    \A S \in Nodes : \A C \in Nodes : \A N \in Nodes :
        (GotFrom(N) /\ ScalarOnlyOn(C, S, ret.name)) =>
            /\ ret.st = "ok"
            /\ (N = S /\ ~isPrivate[S]) => ret.val = Stored(C, ret.name)
            /\ (N = S /\ isPrivate[S]) => ReturnedDefault
            /\ N \notin ({S, C} \cup Descendants(C)) => ReturnedDefault

\* get on node 1 has returned "a", which its private child 2 stores and no
\* other node, node 1 having a non-private child too.
C17_Witness ==
    /\ ret.op = "get"
    /\ ret.node = 1
    /\ created = 3
    /\ ScalarOnlyOn(2, 1, ret.name)
    /\ parent[3] = 1
    /\ ~isPrivate[3]
    /\ Stored(2, ret.name) = StrA
    /\ ret.val = StrA

\* --------------------------------------------------------------------- C18
\* The kinds of value each expected type accepts.
KindsOf(expected_type) ==
    CASE expected_type = "basestring" -> {"str"}
      [] expected_type = "int" -> {"int", "bool"}
      [] expected_type = "bool" -> {"bool"}
      [] OTHER -> {"str", "int", "bool", "list", "dict", "tuple", "none"}

WrongKind(value, expected_type) == value.t \notin KindsOf(expected_type)

\* The step has stored the value under the name on the top node and changed
\* nothing else on it, nor anything on another node.
StoresOnTopOnly(name, value) ==
    /\ DOMAIN properties'[top] = DOMAIN properties[top] \cup {name}
    /\ properties'[top][name] = value
    /\ \A k \in DOMAIN properties[top] \ {name} :
           properties'[top][k] = properties[top][k]
    /\ \A n \in Node \ {top} : properties'[n] = properties[n]

\* C18: set_checked with the value None changes nothing and succeeds; with a
\* value of another kind than the expected type it fails with AssertionError
\* (the TypeMismatch error) and leaves the properties of every node as they
\* were; otherwise it stores the value under the name on the top node and
\* changes no other node (and with no top node at all it fails, nothing
\* stored). The stack of nodes is never changed.
C18_SetCheckedStoresOnTopOrFails ==
    [][\A name \in CheckedNames : \A value \in CheckedValues :
         \A expected_type \in ExpectedTypes :
           SetChecked(name, value, expected_type) =>
             /\ top' = top
             /\ IF IsNone(value)
                THEN ret'.st = "ok" /\ properties' = properties
                ELSE IF WrongKind(value, expected_type)
                THEN ret'.st = AssertionError /\ properties' = properties
                ELSE IF top = NoNode
                THEN ret'.st = AssertionError /\ properties' = properties
                ELSE ret'.st = "ok" /\ StoresOnTopOnly(name, value)]_vars

\* A checked assignment of an int has succeeded on node 2, whose parent holds
\* nothing under the name.
C18_Witness ==
    /\ ret.op = "set_checked"
    /\ ret.st = "ok"
    /\ ret.expected_type = "int"
    /\ ret.value = Int3
    /\ top = 2
    /\ Stored(2, ret.name) = Int3
    /\ IsNone(Stored(1, ret.name))

\* A checked assignment of a string where an int is expected has failed
\* inside a block.
C18_WitnessWrongKind ==
    /\ ret.op = "set_checked"
    /\ ret.st = AssertionError
    /\ ret.expected_type = "int"
    /\ ret.value = StrA
    /\ top # NoNode

\* --------------------------------------------------------------------- C19
\* The ancestors of n as far as the first Private node, which is the last
\* one of them; none for a Private n.
RECURSIVE AncestorsToPrivate(_)
AncestorsToPrivate(n) ==
    IF isPrivate[n] \/ parent[n] = NoNode THEN {}
    ELSE {parent[n]} \cup AncestorsToPrivate(parent[n])

\* The nodes of the set that store a string under the name.
WithString(nodes, name) == {n \in nodes : IsString(Stored(n, name))}

\* The value of the name by precedence: that of S itself, else that of a
\* private child (the one constructed last), else that of the nearest of the
\* ancestors, strings alone counting.
Prevailing(S, privates, ancestors, name) ==
    IF IsString(Stored(S, name)) THEN Stored(S, name)
    ELSE IF WithString(privates, name) # {}
    THEN Stored(CHOOSE c \in WithString(privates, name) :
                    \A d \in WithString(privates, name) : d <= c, name)
    ELSE Stored(CHOOSE a \in WithString(ancestors, name) :
                    \A b \in WithString(ancestors, name) : b \in {a} \cup Ancestors(a),
                name)

\* The namespace made of the strings of S, of the private children and of the
\* ancestors given, and of nothing else.
NamespaceOf(S, privates, ancestors) ==
    [name \in {k \in UNION {DOMAIN properties[n] : n \in {S} \cup privates \cup ancestors} :
                  WithString({S} \cup privates \cup ancestors, k) # {}}
        |-> Prevailing(S, privates, ancestors, name)]

Gathered(S) == ret.op = "get_interpolation_values" /\ ret.node = S

\* C19 as stated: the namespace of S holds exactly the strings of S, of its
\* private children and of all its ancestors, S's own value before a private
\* child's before a nearer ancestor's before a farther one's.
C19_NamespaceOfAllAncestors ==
    \A S \in Nodes :
        Gathered(S) => ret.val = NamespaceOf(S, PrivateChildSet(S), Ancestors(S))

\* C19 as amended: the namespace of a scope S that is not Private holds
\* exactly the strings of S, of its private children and of its ancestors as
\* far as the first Private one, with the same precedence; the namespace of a
\* Private scope holds exactly its own strings. No other value than a string
\* is in it.
C19_NamespaceUpToPrivate ==
    \A S \in Nodes :
        Gathered(S) =>
            /\ ret.val = NamespaceOf(S,
                                     IF isPrivate[S] THEN {} ELSE PrivateChildSet(S),
                                     AncestorsToPrivate(S))
            /\ \A k \in DOMAIN ret.val : IsString(ret.val[k])

\* The namespace of node 2 has been gathered: x is "a" on its parent and
\* "b" on its private child 3, and the namespace has "b".
C19_Witness ==
    /\ Gathered(2)
    /\ parent[2] = 1
    /\ ~isPrivate[2]
    /\ 3 \in PrivateChildSet(2)
    /\ Stored(1, X) = StrA
    /\ Stored(3, X) = StrB
    /\ X \in DOMAIN ret.val
    /\ ret.val[X] = StrB

\* The namespace of node 2 has been gathered: x is the integer 3 on it and
\* "a" on its parent, and the namespace has "a".
C19_WitnessNotString ==
    /\ Gathered(2)
    /\ parent[2] = 1
    /\ ~isPrivate[2]
    /\ Stored(2, X) = Int3
    /\ Stored(1, X) = StrA
    /\ X \in DOMAIN ret.val
    /\ ret.val[X] = StrA

\* --------------------------------------------------------------------- C21
\* The nearest string stored under name in the tree props, walking from n up
\* its parent chain.
RECURSIVE NearestStringIn(_, _, _)
NearestStringIn(props, n, name) ==
    IF n = NoNode THEN NoneV
    ELSE IF IsString(Local(props, n, name)) THEN Local(props, n, name)
    ELSE NearestStringIn(props, parent[n], name)

\* The strings node S and its ancestors define in the tree props, the
\* nearest first.
ChainStringsIn(props, S) ==
    [name \in {k \in UNION {DOMAIN props[n] : n \in Node} :
                   ~IsNone(NearestStringIn(props, S, k))}
        |-> NearestStringIn(props, S, name)]

\* The outcome of substituting the fields of the tokens from the namespace.
SubstitutedFrom(tokens, namespace) ==
    IF Placeholders(tokens) \subseteq DOMAIN namespace
    THEN [st |-> "ok", val |-> Str(Substituted(tokens, namespace))]
    ELSE [st |-> KeyError, val |-> NoneV]

\* The revisions of a build without changes, the empty string.
WithNoRevisions(namespace) ==
    [k \in DOMAIN namespace \cup {Revisions} |->
        IF k = Revisions THEN Str(<<>>) ELSE namespace[k]]

Resolved21 == ret.op = "resolve"

\* C21: on a tree of plain scopes, the resolution of a renderer substitutes
\* the fields of the template it captured with the strings the origin scope
\* and its ancestors define when it is resolved, whatever they defined when
\* the renderer was taken, and the interpolated value taken at the same
\* point has the strings defined then, whatever was set since.
C21_DeferredSeesLaterSets ==
    Resolved21 =>
        LET S == ret.node
            template == NearestStringIn(ret.then, S, ret.name)
        IN /\ IsString(template)
           /\ ret.rendered.val.v.fmt = template.v
           /\ [st |-> ret.st, val |-> ret.val] =
                 SubstitutedFrom(template.v, WithNoRevisions(ChainStringsIn(properties, S)))
           /\ ret.interpolated =
                 SubstitutedFrom(template.v, ChainStringsIn(ret.then, S))

\* x was "a" on the root when the renderer and the interpolated value of t
\* were taken on node 2, and was set to "b" on the root after that: the
\* interpolated value is "a", the resolution gives "b".
C21_Witness ==
    /\ Resolved21
    /\ ret.node = 2
    /\ Local(ret.then, 1, X) = StrA
    /\ Stored(1, X) = StrB
    /\ ret.interpolated = [st |-> "ok", val |-> StrA]
    /\ ret.st = "ok"
    /\ ret.val = StrB

\* x was not defined when the renderer was taken on the root and was set
\* after that: the interpolation has failed, the resolution gives "a".
C21_WitnessSetLater ==
    /\ Resolved21
    /\ ret.node = 1
    /\ ret.interpolated.st = KeyError
    /\ ret.st = "ok"
    /\ ret.val = StrA

\* --------------------------------------------------------------------- C22
\* The name is the prefix, then "_", then anything.
PrefixThenSeparator(name, prefix) ==
    /\ Len(name) > Len(prefix)
    /\ \A i \in 1..Len(prefix) : name[i] = prefix[i]
    /\ name[Len(prefix) + 1] = "_"

\* The names with the prefix stored on the nodes of the set.
PrefixedOn(nodes, prefix) ==
    {name \in UNION {DOMAIN properties[n] : n \in nodes} :
        PrefixThenSeparator(name, prefix)}

Discovered(S) == ret.op = "get_properties_names" /\ ret.node = S

\* C22 as stated: the names discovered on S are exactly the names with the
\* prefix and "_" stored on S, on a private child of S or on any ancestor
\* of S.
C22_NamesOfAllAncestors ==
    \A S \in Nodes :
        Discovered(S) =>
            ret.val = PrefixedOn({S} \cup PrivateChildSet(S) \cup Ancestors(S), ret.prefix)

\* C22 as amended: the names discovered on a scope S that is not Private are
\* exactly the names with the prefix and "_" stored on S, on a private child
\* of S or on an ancestor of S as far as the first Private one; on a Private
\* scope they are those stored on the scope itself. A name equal to the
\* prefix or without the "_" is never among them.
C22_NamesUpToPrivate ==
    \A S \in Nodes :
        Discovered(S) =>
            /\ ret.val = PrefixedOn({S}
                                    \cup (IF isPrivate[S] THEN {} ELSE PrivateChildSet(S))
                                    \cup AncestorsToPrivate(S),
                                    ret.prefix)
            /\ ret.prefix \notin ret.val
            /\ \A name \in ret.val : name[Len(ret.prefix) + 1] = "_"

\* The names with the prefix s have been discovered on node 1, whose private
\* child stores s_m, node 1 storing sm: s_m alone is discovered.
C22_Witness ==
    /\ Discovered(1)
    /\ ret.prefix = PrefixS
    /\ \E C \in PrivateChildSet(1) : S_M \in DOMAIN properties[C]
    /\ SM \in DOMAIN properties[1]
    /\ ret.val = {S_M}

\* --------------------------------------------------------------------- C23
\* The number of places of the list that hold n.
Occurrences(list, n) == Cardinality({i \in 1..Len(list) : list[i] = n})

\* The nodes reached from n in at most k steps up the parent links.
RECURSIVE UpWithin(_, _)
UpWithin(n, k) ==
    IF k = 0 \/ parent[n] = NoNode THEN {}
    ELSE {parent[n]} \cup UpWithin(parent[n], k - 1)

\* Every node has one parent or none, is once in the children of its parent
\* and in no other list, the lists are in construction order and no node is
\* above itself.
Forest ==
    /\ \A n \in Nodes : parent[n] \in Nodes \cup {NoNode}
    /\ \A n \in Nodes : \A p \in Nodes :
           Occurrences(children[p], n) = IF parent[n] = p THEN 1 ELSE 0
    /\ \A p \in Nodes : \A i, j \in 1..Len(children[p]) :
           i < j => children[p][i] < children[p][j]
    /\ \A n \in Nodes : n \notin UpWithin(n, MaxNodes)

\* The step gives no node another parent, and the node it constructs, if
\* any, the top of before the step as parent.
ParentIsTopAtConstruction ==
    /\ \A n \in Nodes : parent'[n] = parent[n]
    /\ created' # created => (created' = created + 1 /\ parent'[created'] = top)

\* C23: whatever nodes are constructed, entered and left, the links form a
\* forest, the parent of a node is the top at its construction and never
\* changes.
C23_LinksFormForest == [](Forest) /\ [][ParentIsTopAtConstruction]_vars

\* Node 3 was constructed under node 1 after node 2, which was entered on its
\* own later: both are children of node 1, in that order.
C23_Witness ==
    /\ created = 3
    /\ children[1] = <<2, 3>>
    /\ parent[2] = 1
    /\ parent[3] = 1
    /\ ret.op = "enter"
    /\ ret.node = 2
    /\ ret.st = "ok"

\* --------------------------------------------------------------------- C24
Queries == {"get", "get_interpolated", "get_rendered", "get_properties_names", "extract"}

\* The step is the query the step before was, on the same node for the same
\* name or prefix.
SameQueryAgain ==
    /\ ret.op = ret'.op
    /\ ret.node = ret'.node
    /\ ret.op \in {"get", "get_interpolated", "get_rendered"} => ret.name = ret'.name
    /\ ret.op = "get_properties_names" => ret.prefix = ret'.prefix
    /\ ret.op # "extract"

C24_WitnessRendered ==
    /\ ret.op = "get_rendered"
    /\ ret.node = 2
    /\ parent[2] = 1
    /\ Stored(1, P) = DictV([k \in {"k1"} |-> StrA])
    /\ Stored(2, P) = DictV([k \in {"k1"} |-> StrA])
    /\ ret.st = "ok"
    /\ DOMAIN ret.val.v = {"k1"}

\* --------------------------------------------------------------------- C25
\* C25: whenever S stores a List or Map under the name, S.get(name) fails
\* with AssertionError (the TypeMismatch error) or returns a collection with
\* every local entry of S, a map holding S's own value for each of its keys;
\* a value of another kind resolved from a related scope is never returned
\* in its place.
C25_LocalCollectionKeptOrFails ==
    \A S \in Nodes :
        (GotFrom(S) /\ IsCollection(Stored(S, ret.name))) =>
            \/ ret.st = AssertionError
            \/ /\ ret.st = "ok"
               /\ EntriesIncluded(Stored(S, ret.name), ret.val)
               /\ IsDict(ret.val) =>
                    \A k \in DOMAIN Stored(S, ret.name).v :
                        ret.val.v[k] = Stored(S, ret.name).v[k]

\* Node 2 stores a list, its parent a string under the same name, and get on
\* node 2 has returned the string.
C25_Witness ==
    /\ ret.op = "get"
    /\ ret.node = 2
    /\ parent[2] = 1
    /\ IsList(Stored(2, ret.name))
    /\ Stored(1, ret.name) = StrA
    /\ ret.st = "ok"
    /\ ret.val = StrA

\* --------------------------------------------------------------------- C26
\* The nodes from n up its parent chain, n first.
RECURSIVE ChainFrom(_)
ChainFrom(n) == IF n = NoNode THEN <<>> ELSE <<n>> \o ChainFrom(parent[n])

\* The nodes entered and not yet left, the innermost first.
OpenInnermostFirst == [i \in 1..Len(active) |-> active[Len(active) + 1 - i].node]

\* C26: when every scope is entered as it is constructed and the blocks are
\* nested, ended normally or by an exception, the top is the innermost scope
\* entered and not left, its parent chain is the stack of the open scopes,
\* and the top is None when no block is open.
C26_TopIsInnermostOpen ==
    /\ ChainFrom(top) = OpenInnermostFirst
    /\ active = <<>> <=> top = NoNode
    /\ active # <<>> => top = active[Len(active)].node

\* The block of node 3, nested in those of 2 and 1, was left by an
\* exception: the top is node 2 and the open blocks are those of 1 and 2.
C26_Witness ==
    /\ ret.op = "exit"
    /\ ret.ex_type = "Exception"
    /\ ret.node = 3
    /\ top = 2
    /\ OpenInnermostFirst = <<2, 1>>

\* The outermost block has been left, by an exception, after a nested one:
\* the top is None.
C26_WitnessOutermost ==
    /\ ret.op = "exit"
    /\ ret.ex_type = "Exception"
    /\ ret.node = 1
    /\ created > 1
    /\ top = NoNode

\* --------------------------------------------------------------------- C27
\* The tree with nothing stored outside N and its descendants.
ErasedAbove(N) ==
    [n \in Node |-> IF n \in {N} \cup Descendants(N) THEN properties[n] ELSE EmptyProps]

\* The outcome of the query of ret had the tree been props.
OutcomeIn(props) ==
    CASE ret.op = "get" ->
           LET r == GetRec(props, ret.node, ret.name, ret.default, FALSE)
           IN ret.st = r.st /\ ret.val = r.val
      [] ret.op = "get_properties_names" ->
           ret.val = PropertiesNames(props, ret.node, ret.prefix, FALSE)
      [] ret.op = "get_interpolation_values" ->
           ret.val = InterpolationValues(props, ret.node, FALSE)
      [] OTHER -> TRUE

\* The query of ret has given what node N stores itself and nothing else.
OwnAlone(N) ==
    CASE ret.op = "get" ->
           /\ ret.st = "ok"
           /\ IF IsNone(Stored(N, ret.name)) THEN ReturnedDefault
              ELSE ret.val = Stored(N, ret.name)
      [] ret.op = "get_properties_names" ->
           ret.val = PrefixedOn({N}, ret.prefix)
      [] ret.op = "get_interpolation_values" ->
           ret.val = NamespaceOf(N, {}, {})
      [] OTHER -> TRUE

AskedOf(n) ==
    /\ ret.op \in {"get", "get_properties_names", "get_interpolation_values"}
    /\ ret.node = n

\* C27: get, the discovery of names and the interpolation namespace asked of
\* a Private node give what the node stores itself and nothing of its parent
\* or ancestors, and asked of a descendant of a Private node they give what
\* they would give were nothing stored above the Private node.
C27_PrivateSeesNothingAbove ==
    \A N \in Nodes : isPrivate[N] =>
        /\ AskedOf(N) => OwnAlone(N)
        /\ \A D \in Descendants(N) : AskedOf(D) => OutcomeIn(ErasedAbove(N))

\* get was asked of node 3, a child of the Private node 2 whose parent
\* stores the name: the default is returned.
C27_Witness ==
    /\ ret.op = "get"
    /\ ret.node = 3
    /\ parent[3] = 2
    /\ parent[2] = 1
    /\ isPrivate[2]
    /\ ~isPrivate[3]
    /\ ~IsNone(Stored(1, ret.name))
    /\ ReturnedDefault

\* The namespace was asked of the Private node 2, whose parent stores a
\* string: the namespace is empty.
C27_WitnessNamespace ==
    /\ ret.op = "get_interpolation_values"
    /\ ret.node = 2
    /\ isPrivate[2]
    /\ IsString(Stored(1, P))
    /\ ret.val = EmptyDict

\* --------------------------------------------------------------------- C28
\* Node n stores a map under the name, with the key k.
MapWithKey(n, name, k) == IsDict(Stored(n, name)) /\ k \in DOMAIN Stored(n, name).v

\* The parent of S and the private child C of S store maps with the key k,
\* which S does not define.
CommonKey(S, C, name, k) ==
    /\ parent[S] # NoNode
    /\ C \in PrivateChildSet(S)
    /\ MapWithKey(parent[S], name, k)
    /\ MapWithKey(C, name, k)
    /\ ~MapWithKey(S, name, k)

\* C28 as stated: when the parent of S and a private child of S store a map
\* under the name with a common key that S does not define, S.get(name)
\* holds the parent's value for the key.
C28_ParentBeforePrivateChild ==
    \A S \in Nodes : \A C \in Nodes : \A k \in {"k1", "k2"} :
        (GotFrom(S) /\ CommonKey(S, C, ret.name, k)) =>
            /\ ret.st = "ok"
            /\ IsDict(ret.val)
            /\ k \in DOMAIN ret.val.v
            /\ ret.val.v[k] = Stored(parent[S], ret.name).v[k]

\* C28 as amended: when S is not Private and S.get(name) returns a map, the
\* map holds the parent's value for such a key; and a key that neither S nor
\* what the parent resolves defines has the value of the private child
\* constructed first among those that store a map with it.
C28_ParentBeforePrivateChildOfPlain ==
    \A S \in Nodes : \A C \in Nodes : \A k \in {"k1", "k2"} :
        (GotFrom(S) /\ ~isPrivate[S] /\ ret.st = "ok" /\ IsDict(ret.val)) =>
            /\ CommonKey(S, C, ret.name, k) =>
                  /\ k \in DOMAIN ret.val.v
                  /\ ret.val.v[k] = Stored(parent[S], ret.name).v[k]
            /\ (/\ C \in PrivateChildSet(S)
                /\ MapWithKey(C, ret.name, k)
                /\ ~MapWithKey(S, ret.name, k)
                /\ \A e \in EarlierPrivate(S, C) : ~MapWithKey(e, ret.name, k)
                /\ parent[S] # NoNode =>
                      ~(IsDict(ParentGet(S, ret.name).val)
                        /\ k \in DOMAIN ParentGet(S, ret.name).val.v))
               => (k \in DOMAIN ret.val.v /\ ret.val.v[k] = Stored(C, ret.name).v[k])

\* Node 1 stores {k1: "a"}, the private child 3 of its child 2 stores
\* {k1: "b"}, and get on node 2 has returned {k1: "a"}.
C28_Witness ==
    /\ ret.op = "get"
    /\ ret.node = 2
    /\ ~isPrivate[2]
    /\ CommonKey(2, 3, ret.name, "k1")
    /\ Stored(1, ret.name).v["k1"] = StrA
    /\ Stored(3, ret.name).v["k1"] = StrB
    /\ ret.st = "ok"
    /\ ret.val = DictV([k \in {"k1"} |-> StrA])

\* Node 1 has two private children that store {k1: "a"} and {k1: "b"}, and
\* get on node 1 has returned {k1: "a"}, the value of the one constructed
\* first.
C28_WitnessEarlierChild ==
    /\ ret.op = "get"
    /\ ret.node = 1
    /\ PrivateChildSet(1) = {2, 3}
    /\ parent[3] = 1
    /\ Stored(2, ret.name) = DictV([k \in {"k1"} |-> StrA])
    /\ Stored(3, ret.name) = DictV([k \in {"k1"} |-> StrB])
    /\ ret.val = DictV([k \in {"k1"} |-> StrA])

\* --------------------------------------------------------------------- C29
Builders == {n \in Nodes : classOf[n] = "Builder"}
Triggers == {n \in Nodes : classOf[n] = "Trigger"}

\* T is the Trigger nearest to B among the ancestors of B.
ClosestTrigger(B, T) ==
    /\ T \in Triggers \cap Ancestors(B)
    /\ \A U \in Triggers \cap Ancestors(B) : U \in {T} \cup Ancestors(T)

\* The number of times the value is in the list.
TimesIn(list, value) == Cardinality({i \in 1..Len(list) : list[i] = value})

\* The list holds the name of every Builder whose closest Trigger is T, once
\* for each of these Builders, and nothing else.
NamesOfItsBuilders(list, T) ==
    /\ \A v \in {StrA, StrB} :
          TimesIn(list, v) =
             Cardinality({B \in Builders : ClosestTrigger(B, T) /\ Stored(B, BuilderName) = v})
    /\ Len(list) = Cardinality({B \in Builders : ClosestTrigger(B, T)})

WalkDone == ret.op = "build_hooks"

ModeAlone ==
    /\ ret.op = "Sync.config"
    /\ top # NoNode
    /\ ret.mode = Full
    /\ IsNone(ret.always_use_latest)
    /\ IsNone(ret.retry)
    /\ IsNone(ret.log_environ)

\* C30: a call of Sync.config that gives the mode alone ends without error,
\* stores sync_mode on the top scope and stores no sync_retry: the top has
\* the sync_retry it had, and no other property of any node has changed.
C30_ModeAloneAccepted ==
    [][(ModeAlone' /\ ret' # ret) =>
          /\ ret'.st = "ok"
          /\ Local(properties', top', SyncMode) = ret'.mode
          /\ Local(properties', top', SyncRetry) = Local(properties, top, SyncRetry)
          /\ \A n \in Node \ {top} : properties'[n] = properties[n]]_vars

\* Sync.config was called with the mode "full" alone in the block of node
\* 2: it has raised TypeError, sync_mode being stored already.
C30_Witness ==
    /\ ModeAlone
    /\ top = 2
    /\ ret.st = TypeError
    /\ Stored(2, SyncMode) = Full
    /\ IsNone(Stored(2, SyncRetry))

====
